-------------------------- MODULE DerivationProofs --------------------------
(***************************************************************************)
(* Proofs about what is derived from the stored bars: the identity of      *)
(* instruments (Identity) and their daily feature rows (Features).  The    *)
(* argument of each component stands before its lemmas.                    *)
(***************************************************************************)
EXTENDS Identity, Features, NaturalFacts

-----------------------------------------------------------------------------
(* Identity, for any lines a venue may publish, and any days and limits.   *)
(*                                                                         *)
(* The argument: stretches of one line follow one another, and still do    *)
(* once those named by their code are folded into the next, so listings    *)
(* closed from them cover every bar and never overlap.  What is stored is  *)
(* what was derived (FollowBars) provided a row upserted keeps the code it *)
(* would be given, which needs a code to a ticker or no correction         *)
(* (Steady).  Without a correction every row stored still has the bar it   *)
(* began with (StillHaveTheirBar), so a later derivation continues it.     *)

\* A bar is a line of the venue followed, of a day it has stored, and an instrument
\* has one a day.
BarsHeld ==
  /\ \A b \in bars : b.line \in Lines /\ b.line.exchange = exchange /\ b.day \in held
  /\ \A a, b \in bars : a.day = b.day /\ a.line.isin = b.line.isin => a = b

\* A stretch, or a history.
Stint == [isin : Nat \ {0}, exchange : {"BSE", "NSE"}, symbol : Nat \ {0}, code : Nat,
         first : Days, last : Days]

\* Of one line: an instrument under one scrip code.
Together(s, t) == s.isin = t.isin /\ s.code = t.code

\* Stretches of one line begin on different days and follow one another.
InTurn(S) ==
  /\ \A s \in S : s.first <= s.last
  /\ \A s, t \in S : Together(s, t) /\ s.first < t.first => s.last < t.first

\* What a bar is made of.
LEMMA BarFields ==
  ASSUME IdentityTypeOK, BarsHeld, NEW b \in bars
  PROVE  /\ b = [line |-> b.line, day |-> b.day] /\ b.day \in Days /\ b.line \in Lines
         /\ b.line.isin \in Nat \ {0} /\ b.line.symbol \in Nat \ {0} /\ b.line.code \in Nat
         /\ b.line.exchange = exchange /\ exchange \in {"BSE", "NSE"} /\ b.day \in held
         /\ (b.line.code = NoCode) = (exchange = "NSE")
         /\ b.day \in Nat /\ 1 <= b.day /\ b.day <= LastDay
<1>1. b \in Bar
  BY DEF IdentityTypeOK
<1>2. b.line \in Lines /\ b.line.exchange = exchange /\ b.day \in held
  BY DEF BarsHeld
<1>3. b.line \in Line /\ (b.line.code = NoCode) = (b.line.exchange = "NSE") /\ LastDay \in Nat
  BY <1>2, IdentityAssumption
<1>4. QED
  BY <1>1, <1>2, <1>3 DEF IdentityTypeOK, Bar, Line, Days

\* The days are natural numbers, and a set of them that has any has a last.
LEMMA LastOfDays ==
  ASSUME NEW D, D \subseteq Days, D # {}
  PROVE  Latest(D) \in D /\ \A e \in D : e <= Latest(D)
<1>1. D \subseteq 0 .. LastDay /\ LastDay \in Nat
  BY IdentityAssumption DEF Days
<1>2. \E d \in D : \A e \in D : e <= d
  BY <1>1, GreatestUpTo
<1>3. QED
  BY <1>2, Zenon DEF Latest

\* Among any bars there is one of a first day.
LEMMA FirstOfBars ==
  ASSUME IdentityTypeOK, BarsHeld, NEW B, B \subseteq bars, B # {}
  PROVE  \E c \in B : \A d \in B : c.day <= d.day
<1> DEFINE Dates == {c.day : c \in B}
<1>1. Dates \subseteq Nat /\ Dates # {}
  BY BarFields
<1>2. PICK x \in Dates : \A y \in Dates : x <= y
  BY <1>1, LeastNatural
<1>3. QED
  BY <1>2

\* Among any bars there is one of a last day.
LEMMA LastOfBars ==
  ASSUME IdentityTypeOK, BarsHeld, NEW B, B \subseteq bars, B # {}
  PROVE  \E c \in B : \A d \in B : d.day <= c.day
<1> DEFINE Dates == {c.day : c \in B}
<1>1. Dates \subseteq 0 .. LastDay /\ Dates # {} /\ LastDay \in Nat
  <2>1. \A c \in B : c.day \in 0 .. LastDay
    BY BarFields, IdentityAssumption
  <2>2. QED
    BY <2>1, IdentityAssumption
<1>2. PICK x \in Dates : \A y \in Dates : y <= x
  BY <1>1, GreatestUpTo
<1>3. QED
  BY <1>2

\* A line's first bar under a ticker opens a stretch.
LEMMA FirstOpens ==
  ASSUME IdentityTypeOK, BarsHeld, NEW b \in bars
  PROVE  \E c \in bars : /\ SameLine(c, b) /\ c.line.symbol = b.line.symbol
                         /\ c.day <= b.day /\ Opens(c)
<1> DEFINE B == {c \in bars : SameLine(c, b) /\ c.line.symbol = b.line.symbol}
<1>1. b \in B
  BY DEF SameLine
<1>2. PICK c \in B : \A d \in B : c.day <= d.day
  BY <1>1, FirstOfBars
<1>3. Opens(c)
  <2>1. SUFFICES ASSUME NEW before \in bars, SameLine(before, c), before.day < c.day,
                        before.line.symbol = c.line.symbol
                 PROVE  FALSE
    BY DEF Opens
  <2>2. before \in B
    BY <2>1 DEF SameLine
  <2>3. c.day <= before.day
    BY <1>2, <2>2
  <2>4. c.day \in Nat /\ before.day \in Nat
    BY BarFields
  <2>5. QED
    BY ONLY <2>1, <2>3, <2>4
<1>4. QED
  BY <1>1, <1>2, <1>3

\* The days of a stretch begin with the day that opens it and end with one of them.
LEMMA DaysOfAStretch ==
  ASSUME IdentityTypeOK, BarsHeld, NEW c \in bars
  PROVE  /\ Latest(DaysFrom(c)) \in DaysFrom(c) /\ Latest(DaysFrom(c)) \in Days
         /\ \A e \in DaysFrom(c) : e <= Latest(DaysFrom(c))
         /\ c.day <= Latest(DaysFrom(c))
<1>1. c.day \in DaysFrom(c)
  <2>1. c.day \in Days /\ c.day \in Nat /\ c.day >= c.day
    BY BarFields
  <2>2. SameLine(c, c)
    BY DEF SameLine
  <2>3. \A e \in bars : e.day \notin c.day + 1 .. c.day
    BY <2>1, BarFields
  <2>4. QED
    BY <2>1, <2>2, <2>3 DEF DaysFrom
<1>2. DaysFrom(c) \subseteq Days
  BY DEF DaysFrom
<1>3. QED
  BY <1>1, <1>2, LastOfDays

\* What a stretch read is, and the bar that opens it.
LEMMA StretchFields ==
  ASSUME IdentityTypeOK, BarsHeld, NEW s \in ReadStretches
  PROVE  /\ s \in Stint /\ s.first <= s.last /\ s.exchange = exchange
         /\ \E c \in bars : /\ Opens(c) /\ s = Stretch(c) /\ c.line.isin = s.isin
                            /\ c.line.symbol = s.symbol /\ c.line.code = s.code
                            /\ c.day = s.first /\ s.last = Latest(DaysFrom(c))
<1>1. PICK c \in bars : Opens(c) /\ s = Stretch(c)
  BY DEF ReadStretches
<1>2. Latest(DaysFrom(c)) \in Days /\ c.day <= Latest(DaysFrom(c))
  BY DaysOfAStretch
<1>3. /\ c.day \in Days /\ c.line.isin \in Nat \ {0} /\ c.line.symbol \in Nat \ {0}
      /\ c.line.code \in Nat /\ exchange \in {"BSE", "NSE"}
  BY BarFields
<1>4. QED
  BY <1>1, <1>2, <1>3 DEF Stretch, Stint

\* The stretches read are one to an instrument's day, in turn.
LEMMA StretchesInTurn ==
  ASSUME IdentityTypeOK, BarsHeld
  PROVE  /\ InTurn(ReadStretches)
         /\ \A s, t \in ReadStretches : s.isin = t.isin /\ s.first = t.first => s = t
<1>1. ASSUME NEW s \in ReadStretches, NEW t \in ReadStretches,
             s.isin = t.isin, s.first = t.first
      PROVE  s = t
  <2>1. PICK c \in bars : s = Stretch(c) /\ c.line.isin = s.isin /\ c.day = s.first
    BY StretchFields
  <2>2. PICK e \in bars : t = Stretch(e) /\ e.line.isin = t.isin /\ e.day = t.first
    BY StretchFields
  <2>3. c = e
    BY <1>1, <2>1, <2>2 DEF BarsHeld
  <2>4. QED
    BY <2>1, <2>2, <2>3
<1>2. ASSUME NEW s \in ReadStretches, NEW t \in ReadStretches,
             Together(s, t), s.first < t.first
      PROVE  s.last < t.first
  <2>1. PICK c \in bars : /\ c.line.isin = s.isin /\ c.line.code = s.code
                          /\ c.day = s.first /\ s.last = Latest(DaysFrom(c))
    BY StretchFields
  <2>2. PICK e \in bars : /\ Opens(e) /\ e.line.isin = t.isin /\ e.line.code = t.code
                          /\ e.day = t.first
    BY StretchFields
  <2>3. SameLine(e, c)
    BY <1>2, <2>1, <2>2 DEF SameLine, Together
  <2>4. s.last \in DaysFrom(c)
    BY <2>1, DaysOfAStretch
  <2>5. e.day \notin c.day + 1 .. s.last
    BY <2>2, <2>3, <2>4 DEF DaysFrom
  <2>6. s.first \in Nat /\ s.last \in Nat /\ t.first \in Nat
    BY StretchFields DEF Stint, Days
  <2>7. QED
    BY ONLY <1>2, <2>1, <2>2, <2>5, <2>6
<1>3. QED
  BY <1>1, <1>2, StretchFields DEF InTurn

\* Every bar lies in a stretch of its line.
LEMMA BarInAStretch ==
  ASSUME IdentityTypeOK, BarsHeld, NEW b \in bars
  PROVE  \E s \in ReadStretches : /\ s.isin = b.line.isin /\ s.code = b.line.code
                                  /\ s.first <= b.day /\ b.day <= s.last
<1> DEFINE B == {c \in bars : SameLine(c, b) /\ Opens(c) /\ c.day <= b.day}
<1>1. B # {}
  BY FirstOpens
<1>2. PICK c \in B : \A d \in B : d.day <= c.day
  BY <1>1, LastOfBars
<1>3. b.day \in DaysFrom(c)
  <2>1. b.day \in Days /\ b.day \in Nat /\ c.day \in Nat /\ c.day <= b.day
    BY BarFields
  <2>2. SameLine(b, c)
    BY DEF SameLine
  <2>3. ASSUME NEW e \in bars, SameLine(e, c), Opens(e), e.day \in c.day + 1 .. b.day
        PROVE  FALSE
    <3>1. e.day \in Nat
      BY BarFields
    <3>2. e.day <= b.day /\ c.day < e.day
      BY ONLY <2>1, <2>3, <3>1
    <3>3. e \in B
      BY <2>3, <3>2 DEF SameLine
    <3>4. e.day <= c.day
      BY <1>2, <3>3
    <3>5. QED
      BY ONLY <2>1, <3>1, <3>2, <3>4
  <2>4. QED
    BY <2>1, <2>2, <2>3 DEF DaysFrom
<1>4. b.day <= Latest(DaysFrom(c))
  BY <1>3, DaysOfAStretch
<1>5. Stretch(c) \in ReadStretches
  BY DEF ReadStretches
<1>6. /\ Stretch(c).isin = b.line.isin /\ Stretch(c).code = b.line.code
      /\ Stretch(c).first <= b.day /\ b.day <= Stretch(c).last
  BY <1>4 DEF Stretch, SameLine
<1>7. QED
  BY <1>5, <1>6

-----------------------------------------------------------------------------
(* Folding: a stretch named by its code goes into the next of its line.    *)

\* The parts of a stretch are numbers and days.
LEMMA SpanNumbers ==
  ASSUME NEW s \in Stint
  PROVE  /\ s.first \in Nat /\ s.last \in Nat /\ s.first \in Days /\ s.last \in Days
         /\ s.isin \in Nat \ {0} /\ s.symbol \in Nat \ {0} /\ s.code \in Nat
BY DEF Stint, Days

\* The next stretch of a line is the first of those after it.
LEMMA NextIsNext ==
  ASSUME NEW S, S \subseteq Stint, NEW s \in S, FollowedIn(Group(s, S), s)
  PROVE  LET t == NextOf(s, S)
         IN  /\ t \in S /\ Together(s, t) /\ t.first > s.first
             /\ \A u \in S : Together(s, u) /\ u.first > s.first => t.first <= u.first
<1> DEFINE later == {t \in Group(s, S) : t.first > s.first}
           Dates == {t.first : t \in later}
<1>1. later # {} /\ later \subseteq S
  BY DEF FollowedIn, Group
<1>2. Dates \subseteq Nat /\ Dates # {}
  BY <1>1, SpanNumbers
<1>3. PICK x \in Dates : \A y \in Dates : x <= y
  BY <1>2, LeastNatural
<1>4. \E t \in later : \A u \in later : t.first <= u.first
  BY <1>3
<1>5. NextOf(s, S) \in later /\ \A u \in later : NextOf(s, S).first <= u.first
  BY <1>4, Zenon DEF NextOf
<1>6. \A u : u \in later <=> u \in S /\ Together(s, u) /\ u.first > s.first
  BY DEF Group, Together
<1>7. QED
  BY <1>5, <1>6

\* A stretch folded is the first of several of its line, and bears its code.
LEMMA FoldedFields ==
  ASSUME NEW S, S \subseteq Stint, NEW s \in Folded(S)
  PROVE  /\ s \in S /\ s.code = s.symbol /\ s.code # NoCode
         /\ \A u \in S : Together(s, u) => s.first <= u.first
         /\ LET t == NextOf(s, S)
            IN  /\ t \in S \ Folded(S) /\ Together(s, t) /\ t.first > s.first
                /\ \A u \in S : Together(s, u) /\ u.first > s.first => t.first <= u.first
<1>1. s \in S /\ Untickered(s, S)
  BY DEF Folded
<1>2. /\ s.symbol = s.code /\ FollowedIn(Group(s, S), s)
      /\ \A u \in Group(s, S) : s.first <= u.first
  BY <1>1 DEF Untickered
<1>3. s.symbol \in Nat \ {0}
  BY <1>1, SpanNumbers
<1>4. \A u \in S : Together(s, u) => s.first <= u.first
  BY <1>2 DEF Group, Together
<1> DEFINE t == NextOf(s, S)
<1>5. /\ t \in S /\ Together(s, t) /\ t.first > s.first
      /\ \A u \in S : Together(s, u) /\ u.first > s.first => t.first <= u.first
  BY <1>1, <1>2, NextIsNext
<1>6. t \notin Folded(S)
  <2>1. ASSUME t \in Folded(S) PROVE FALSE
    <3>1. \A u \in Group(t, S) : t.first <= u.first
      BY <2>1 DEF Folded, Untickered
    <3>2. s \in Group(t, S)
      BY <1>1, <1>5 DEF Group, Together
    <3>3. t.first <= s.first /\ t.first > s.first /\ t.first \in Nat /\ s.first \in Nat
      BY <1>1, <1>5, <3>1, <3>2, SpanNumbers
    <3>4. QED
      BY ONLY <3>3
  <2>2. QED
    BY <2>1
<1>7. QED
  BY <1>1, <1>2, <1>3, <1>4, <1>5, <1>6 DEF NoCode

\* What a stretch left is once folded ones went into it.
FoldedInto(s, t, S) == s \in Folded(S) /\ t = NextOf(s, S)

\* A stretch is widened to where one folded into it began, or stays as it is.
LEMMA WidenedFields ==
  ASSUME NEW S, S \subseteq Stint, NEW t \in S
  PROVE  LET h == Widened(t, Folded(S), S)
         IN  \/ h = t /\ \A s : ~ FoldedInto(s, t, S)
             \/ \E s \in Folded(S) : FoldedInto(s, t, S) /\ h = [t EXCEPT !.first = s.first]
<1> DEFINE before == {s \in Folded(S) : t = NextOf(s, S)}
           h == Widened(t, Folded(S), S)
<1>1. CASE before = {}
  <2>1. h = t
    BY <1>1 DEF Widened
  <2>2. QED
    BY <1>1, <2>1 DEF FoldedInto
<1>2. CASE before # {}
  <2> DEFINE s == CHOOSE s \in before : TRUE
  <2>1. s \in before
    BY <1>2
  <2>2. h = [t EXCEPT !.first = s.first]
    BY <1>2 DEF Widened
  <2>3. QED
    BY <2>1, <2>2 DEF FoldedInto
<1>3. QED
  BY <1>1, <1>2

\* A history is a stretch that was left, and one of its line began where it begins.
IsOf(h, t, s) ==
  /\ h.isin = t.isin /\ h.exchange = t.exchange /\ h.symbol = t.symbol /\ h.code = t.code
  /\ h.last = t.last /\ h.first = s.first /\ Together(s, t) /\ s.first <= t.first
  /\ h.code = NoCode => s = t

\* A stretch left, widened, is a history of its line.
LEMMA HistoryFields ==
  ASSUME NEW S, S \subseteq Stint, InTurn(S), NEW t \in S \ Folded(S)
  PROVE  LET h == Widened(t, Folded(S), S)
         IN  /\ h \in Stint /\ h \in AbsorbUntickered(S)
             /\ \E s \in S : IsOf(h, t, s) /\ (s = t \/ FoldedInto(s, t, S))
             /\ h.first <= h.last
<1> DEFINE h == Widened(t, Folded(S), S)
<1>1. h \in AbsorbUntickered(S)
  BY DEF AbsorbUntickered
<1>2. t \in Stint /\ t.first <= t.last /\ t.first \in Nat /\ t.last \in Nat
  BY SpanNumbers DEF InTurn
<1>3. CASE h = t
  <2>1. IsOf(h, t, t)
    BY <1>2, <1>3 DEF IsOf, Together
  <2>2. QED
    BY <1>1, <1>2, <1>3, <2>1
<1>4. ASSUME NEW s \in Folded(S), FoldedInto(s, t, S), h = [t EXCEPT !.first = s.first]
      PROVE  /\ h \in Stint /\ h.first <= h.last
             /\ \E u \in S : IsOf(h, t, u) /\ (u = t \/ FoldedInto(u, t, S))
  <2>1. s \in S /\ s.code # NoCode /\ Together(s, t) /\ t.first > s.first
    BY <1>4, FoldedFields DEF FoldedInto
  <2>2. s.first \in Days /\ s.first \in Nat
    BY <2>1, SpanNumbers
  <2>3. h \in Stint /\ h.first = s.first /\ h.last = t.last
    BY <1>2, <1>4, <2>2 DEF Stint
  <2>4. h.isin = t.isin /\ h.exchange = t.exchange /\ h.symbol = t.symbol /\ h.code = t.code
    BY <1>2, <1>4 DEF Stint
  <2>5. s.first <= t.first /\ s.first <= t.last
    BY ONLY <1>2, <2>1, <2>2
  <2>6. IsOf(h, t, s)
    BY <2>1, <2>3, <2>4, <2>5 DEF IsOf, Together
  <2>7. QED
    BY <1>4, <2>1, <2>3, <2>5, <2>6
<1>5. QED
  BY <1>1, <1>3, <1>4, WidenedFields

\* Every history is a stretch left, begun where one of its line began.
LEMMA HistoryOf ==
  ASSUME NEW S, S \subseteq Stint, InTurn(S), NEW h \in AbsorbUntickered(S)
  PROVE  /\ h \in Stint /\ h.first <= h.last
         /\ \E t \in S \ Folded(S) : \E s \in S :
              /\ h = Widened(t, Folded(S), S) /\ IsOf(h, t, s)
              /\ s = t \/ FoldedInto(s, t, S)
<1>1. PICK t \in S \ Folded(S) : h = Widened(t, Folded(S), S)
  BY DEF AbsorbUntickered
<1>2. QED
  BY <1>1, HistoryFields

\* The histories of a line follow one another too.
LEMMA HistoriesInTurn ==
  ASSUME NEW S, S \subseteq Stint, InTurn(S),
         \A s, t \in S : s.isin = t.isin /\ s.first = t.first => s = t
  PROVE  InTurn(AbsorbUntickered(S))
<1>1. SUFFICES ASSUME NEW g \in AbsorbUntickered(S), NEW h \in AbsorbUntickered(S),
                      Together(g, h), g.first < h.first
               PROVE  g.last < h.first
  BY HistoryOf DEF InTurn
<1>2. PICK t1 \in S \ Folded(S), s1 \in S : /\ g = Widened(t1, Folded(S), S) /\ IsOf(g, t1, s1)
                                            /\ s1 = t1 \/ FoldedInto(s1, t1, S)
  BY HistoryOf
<1>3. PICK t2 \in S \ Folded(S), s2 \in S : /\ h = Widened(t2, Folded(S), S) /\ IsOf(h, t2, s2)
                                            /\ s2 = t2 \/ FoldedInto(s2, t2, S)
  BY HistoryOf
<1>4. /\ Together(s1, s2) /\ Together(t1, t2) /\ Together(s1, t2) /\ Together(s2, s1)
      /\ s1.first = g.first /\ s2.first = h.first /\ g.last = t1.last
  BY <1>1, <1>2, <1>3 DEF IsOf, Together
<1>5. /\ s1.first \in Nat /\ s2.first \in Nat /\ t1.first \in Nat /\ t2.first \in Nat
      /\ t1.last \in Nat
  BY SpanNumbers
<1>6. s2 = t2
  <2>1. ASSUME FoldedInto(s2, t2, S) PROVE FALSE
    <3>1. s2.first <= s1.first
      BY <1>4, <2>1, FoldedFields DEF FoldedInto
    <3>2. QED
      BY ONLY <1>1, <1>4, <1>5, <3>1
  <2>2. QED
    BY <1>3, <2>1
<1>7. t1.first < t2.first
  <2>1. CASE s1 = t1
    BY <1>1, <1>4, <1>6, <2>1
  <2>2. CASE FoldedInto(s1, t1, S)
    <3>1. s2.first > s1.first
      BY ONLY <1>1, <1>4, <1>5
    <3>2. t1.first <= t2.first
      BY <1>4, <1>6, <2>2, <3>1, FoldedFields DEF FoldedInto
    <3>3. t1.first # t2.first
      <4>1. ASSUME t1.first = t2.first PROVE FALSE
        <5>1. t1 = t2
          BY <1>4, <4>1 DEF Together
        <5>2. g = h
          BY <1>2, <1>3, <5>1
        <5>3. QED
          BY ONLY <1>1, <1>4, <1>5, <5>2
      <4>2. QED
        BY <4>1
    <3>4. QED
      BY ONLY <1>5, <3>2, <3>3
  <2>3. QED
    BY <1>2, <2>1, <2>2
<1>8. t1.last < t2.first
  BY <1>4, <1>7 DEF InTurn
<1>9. QED
  BY <1>4, <1>6, <1>8

\* What a stretch held, a history of its line holds.
LEMMA HistoryHolds ==
  ASSUME NEW S, S \subseteq Stint, InTurn(S), NEW s \in S,
         \A u, t \in S : u.isin = t.isin /\ u.first = t.first => u = t
  PROVE  \E h \in AbsorbUntickered(S) :
            /\ Together(h, s) /\ h.first <= s.first /\ s.last <= h.last
            /\ h.code = NoCode => h.symbol = s.symbol
<1>0. s.first \in Nat /\ s.last \in Nat
  BY SpanNumbers
<1>1. CASE s \notin Folded(S)
  <2> DEFINE h == Widened(s, Folded(S), S)
  <2>1. h \in AbsorbUntickered(S) /\ \E u \in S : IsOf(h, s, u)
    BY <1>1, HistoryFields
  <2>2. Together(h, s) /\ h.first <= s.first /\ s.last <= h.last /\ h.symbol = s.symbol
    BY <1>0, <2>1 DEF IsOf, Together
  <2>3. QED
    BY <2>1, <2>2
<1>2. CASE s \in Folded(S)
  <2> DEFINE t == NextOf(s, S)
             h == Widened(t, Folded(S), S)
  <2>1. /\ t \in S \ Folded(S) /\ Together(s, t) /\ t.first > s.first /\ s.code # NoCode
        /\ FoldedInto(s, t, S)
    BY <1>2, FoldedFields DEF FoldedInto
  <2>2. h \in AbsorbUntickered(S) /\ h.first <= h.last
    BY <2>1, HistoryFields
  <2>3. PICK u \in Folded(S) : FoldedInto(u, t, S) /\ h = [t EXCEPT !.first = u.first]
    BY <2>1, WidenedFields
  <2>4. u \in S /\ Together(u, t) /\ \A v \in S : Together(u, v) => u.first <= v.first
    BY <2>3, FoldedFields DEF FoldedInto
  <2>5. \A v \in S : Together(s, v) => s.first <= v.first
    BY <1>2, FoldedFields
  <2>6. Together(u, s) /\ Together(s, u) /\ u.isin = s.isin
    BY <2>1, <2>4 DEF Together
  <2>7. u.first = s.first
    <3>1. u.first <= s.first /\ s.first <= u.first /\ u.first \in Nat /\ s.first \in Nat
      BY <2>4, <2>5, <2>6, SpanNumbers
    <3>2. QED
      BY ONLY <3>1
  <2>8. h.first = s.first /\ h.last = t.last /\ h.isin = s.isin /\ h.code = s.code
    BY <2>1, <2>3, <2>7 DEF Stint, Together
  <2>9. s.last < t.first /\ t.first <= t.last
    BY <2>1 DEF InTurn
  <2>10. t.first \in Nat /\ t.last \in Nat
    BY <2>1, SpanNumbers
  <2>11. s.last <= t.last /\ s.first <= s.first
    BY ONLY <1>0, <2>9, <2>10
  <2>12. QED
    BY <2>1, <2>2, <2>8, <2>11 DEF Together
<1>3. QED
  BY <1>1, <1>2

-----------------------------------------------------------------------------
(* Listings: what a derivation makes of the histories.                     *)

Absorbed == AbsorbUntickered(ReadStretches)

\* A listing is of a history: closed with it when another of its line follows.
AsListed(n, h) ==
  /\ n.isin = h.isin /\ n.exchange = h.exchange /\ n.symbol = h.symbol /\ n.code = h.code
  /\ n.listed = h.first /\ n.delisted \in {Never, h.last}
  /\ FollowedIn(Group(h, Absorbed), h) => n.delisted = h.last

\* The histories closed, and one marked as taken over.
Closed == {CloseListing(s, Absorbed, Latest(held)) : s \in Absorbed}
MarkOf(l, all) == IF Takers(l, all) # {} THEN [l EXCEPT !.reason = "superseded"] ELSE l

\* The stretches read, and the histories they leave, are in turn.
LEMMA StretchesAreSpans ==
  ASSUME IdentityTypeOK, BarsHeld
  PROVE  /\ ReadStretches \subseteq Stint /\ InTurn(ReadStretches)
         /\ \A s, t \in ReadStretches : s.isin = t.isin /\ s.first = t.first => s = t
         /\ InTurn(Absorbed)
<1>1. ReadStretches \subseteq Stint
  BY StretchFields
<1>2. QED
  BY <1>1, StretchesInTurn, HistoriesInTurn DEF Absorbed

\* A history closed is a listing of it.
LEMMA ClosedFields ==
  ASSUME IdentityTypeOK, BarsHeld, NEW h \in Absorbed
  PROVE  LET l == CloseListing(h, Absorbed, Latest(held))
         IN  l \in Listing /\ AsListed(l, h) /\ l.reason # "superseded"
<1> DEFINE l == CloseListing(h, Absorbed, Latest(held))
<1>1. h \in Stint
  BY StretchesAreSpans, HistoryOf DEF Absorbed
<1>2. /\ h.isin \in Nat /\ h.exchange \in {"BSE", "NSE"} /\ h.symbol \in Nat /\ h.code \in Nat
      /\ h.first \in Days /\ h.last \in Days
  BY <1>1 DEF Stint
<1>3. /\ l.isin = h.isin /\ l.exchange = h.exchange /\ l.symbol = h.symbol /\ l.code = h.code
      /\ l.listed = h.first /\ l.delisted \in {Never, h.last}
      /\ l.reason \in {"open", "renamed", "delisted"}
  BY DEF CloseListing
<1>4. FollowedIn(Group(h, Absorbed), h) => l.delisted = h.last
  BY DEF CloseListing
<1>5. l \in Listing
  BY <1>2, Zenon DEF CloseListing, Listing
<1>6. QED
  BY <1>3, <1>4, <1>5 DEF AsListed

\* Marking a listing changes its reason alone.
LEMMA MarkFields ==
  ASSUME NEW l \in Listing, NEW all
  PROVE  LET m == MarkOf(l, all)
         IN  /\ m \in Listing /\ m.isin = l.isin /\ m.exchange = l.exchange
             /\ m.symbol = l.symbol /\ m.code = l.code /\ m.listed = l.listed
             /\ m.delisted = l.delisted
             /\ m.reason = IF Takers(l, all) # {} THEN "superseded" ELSE l.reason
BY DEF MarkOf, Listing

\* The listings derived are the histories closed, each marked where it was taken over.
LEMMA DerivedAre ==
  ASSUME IdentityTypeOK, BarsHeld
  PROVE  DeriveListings = IF held = {} THEN {} ELSE {MarkOf(l, Closed) : l \in Closed}
BY Zenon DEF DeriveListings, MarkSupersessions, MarkOf, Closed, Absorbed

\* Every listing derived is of a history.
LEMMA DerivedOf ==
  ASSUME IdentityTypeOK, BarsHeld, NEW n \in DeriveListings
  PROVE  /\ held # {} /\ n \in Listing
         /\ \E h \in Absorbed : AsListed(n, h)
         /\ \E l \in Closed : n = MarkOf(l, Closed) /\ l \in Listing /\ l.reason # "superseded"
<1>1. held # {} /\ \E l \in Closed : n = MarkOf(l, Closed)
  BY DerivedAre
<1>2. PICK l \in Closed : n = MarkOf(l, Closed)
  BY <1>1
<1>3. PICK h \in Absorbed : l = CloseListing(h, Absorbed, Latest(held))
  BY DEF Closed
<1>4. l \in Listing /\ AsListed(l, h) /\ l.reason # "superseded"
  BY <1>3, ClosedFields
<1>5. n \in Listing /\ AsListed(n, h)
  BY <1>2, <1>4, MarkFields DEF AsListed
<1>6. QED
  BY <1>1, <1>2, <1>4, <1>5

\* Every history has its listing.
LEMMA DerivedHas ==
  ASSUME IdentityTypeOK, BarsHeld, held # {}, NEW h \in Absorbed
  PROVE  \E n \in DeriveListings : AsListed(n, h)
<1> DEFINE l == CloseListing(h, Absorbed, Latest(held))
<1>1. l \in Closed /\ l \in Listing /\ AsListed(l, h)
  BY ClosedFields DEF Closed
<1>2. MarkOf(l, Closed) \in DeriveListings
  BY <1>1, DerivedAre
<1>3. AsListed(MarkOf(l, Closed), h)
  <2> HIDE DEF l
  <2>1. QED
    BY <1>1, MarkFields DEF AsListed
<1>4. QED
  BY <1>2, <1>3

\* A listing begins on a day its instrument has a bar, under its scrip code, and is
\* named as a line of the venue is.
BeganWith(n, b) ==
  /\ b.line.isin = n.isin /\ b.day = n.listed /\ b.line.code = n.code
  /\ n.code = NoCode => b.line.symbol = n.symbol

NamedAs(n, line) ==
  /\ line.isin = n.isin /\ line.exchange = n.exchange /\ line.symbol = n.symbol
  /\ line.code = n.code

\* A listing derived began with a bar of its instrument, and bears a line's names.
LEMMA DerivedFromBars ==
  ASSUME IdentityTypeOK, BarsHeld, NEW n \in DeriveListings
  PROVE  /\ \E b \in bars : BeganWith(n, b)
         /\ \E line \in Lines : NamedAs(n, line)
         /\ n.exchange = exchange
<1>1. PICK h \in Absorbed : AsListed(n, h)
  BY DerivedOf
<1>2. PICK t \in ReadStretches, s \in ReadStretches : IsOf(h, t, s)
  BY StretchesAreSpans, HistoryOf DEF Absorbed
<1>3. PICK b \in bars : /\ b.line.isin = s.isin /\ b.line.symbol = s.symbol
                        /\ b.line.code = s.code /\ b.day = s.first
  BY StretchFields
<1>4. BeganWith(n, b)
  BY <1>1, <1>2, <1>3 DEF BeganWith, AsListed, IsOf, Together
<1>5. PICK c \in bars : /\ c.line.isin = t.isin /\ c.line.symbol = t.symbol
                        /\ c.line.code = t.code
  BY StretchFields
<1>6. t.exchange = exchange /\ c.line.exchange = exchange /\ c.line \in Lines
  BY StretchFields, BarFields
<1>7. NamedAs(n, c.line) /\ n.exchange = exchange
  BY <1>1, <1>2, <1>5, <1>6 DEF NamedAs, AsListed, IsOf
<1>8. QED
  BY <1>4, <1>6, <1>7

\* The identifier of any bar is a derived listing's of its instrument.
LEMMA EveryBarContinues ==
  ASSUME IdentityTypeOK, BarsHeld, NEW b \in bars
  PROVE  \E n \in DeriveListings :
            n.isin = b.line.isin /\ VenueIdentifier(n) = VenueIdentifier(b.line)
<1>1. PICK c \in bars : SameLine(c, b) /\ c.line.symbol = b.line.symbol /\ Opens(c)
  BY FirstOpens
<1>2. Stretch(c) \in ReadStretches
  BY <1>1 DEF ReadStretches
<1>3. PICK h \in Absorbed : /\ Together(h, Stretch(c))
                            /\ h.code = NoCode => h.symbol = Stretch(c).symbol
  BY <1>2, StretchesAreSpans, HistoryHolds DEF Absorbed
<1>4. held # {}
  BY BarFields
<1>5. PICK n \in DeriveListings : AsListed(n, h)
  BY <1>4, DerivedHas
<1>6. /\ n.isin = b.line.isin /\ n.code = b.line.code
      /\ n.code = NoCode => n.symbol = b.line.symbol
  <2> DEFINE s == Stretch(c)
  <2>1. s.isin = b.line.isin /\ s.code = b.line.code /\ s.symbol = b.line.symbol
    BY <1>1 DEF Stretch, SameLine
  <2>2. n.isin = h.isin /\ n.code = h.code /\ n.symbol = h.symbol
    BY <1>5 DEF AsListed
  <2>3. Together(h, s) /\ (h.code = NoCode => h.symbol = s.symbol)
    BY <1>3
  <2> HIDE DEF s
  <2>4. h.isin = s.isin /\ h.code = s.code
    BY <2>3 DEF Together
  <2>5. QED
    BY <2>1, <2>2, <2>3, <2>4
<1>7. QED
  BY <1>6 DEF VenueIdentifier

-----------------------------------------------------------------------------
(* The checks, of the listings the bars derive.                            *)

\* Every bar is in a listing.
LEMMA DerivedCover ==
  ASSUME IdentityTypeOK, BarsHeld, NEW b \in bars
  PROVE  \E n \in DeriveListings : Covers(n, b)
<1>1. PICK s \in ReadStretches : /\ s.isin = b.line.isin /\ s.first <= b.day
                                 /\ b.day <= s.last
  BY BarInAStretch
<1>2. PICK h \in Absorbed : Together(h, s) /\ h.first <= s.first /\ s.last <= h.last
  BY StretchesAreSpans, HistoryHolds DEF Absorbed
<1>3. held # {}
  BY BarFields
<1>4. PICK n \in DeriveListings : AsListed(n, h)
  BY <1>3, DerivedHas
<1>5. h \in Stint /\ s \in Stint
  BY StretchesAreSpans, HistoryOf DEF Absorbed
<1>6. h.first \in Nat /\ h.last \in Nat /\ s.first \in Nat /\ s.last \in Nat /\ b.day \in Nat
  BY <1>5, SpanNumbers, BarFields
<1>7. h.first <= b.day /\ b.day <= h.last
  BY ONLY <1>1, <1>2, <1>6
<1>8. n.isin = b.line.isin /\ n.listed = h.first /\ n.delisted \in {Never, h.last}
  BY <1>1, <1>2, <1>4 DEF AsListed, Together
<1>9. b.day >= n.listed /\ (n.delisted = Never \/ b.day <= n.delisted)
  BY ONLY <1>6, <1>7, <1>8
<1>10. QED
  BY <1>8, <1>9 DEF Covers

\* Two listings of one identifier never overlap.
LEMMA DerivedApart ==
  ASSUME IdentityTypeOK, BarsHeld, NEW m \in DeriveListings, NEW n \in DeriveListings,
         n.isin = m.isin, VenueIdentifier(n) = VenueIdentifier(m), n.listed > m.listed
  PROVE  m.delisted # Never /\ n.listed > m.delisted
<1>1. PICK g \in Absorbed : AsListed(m, g)
  BY DerivedOf
<1>2. PICK h \in Absorbed : AsListed(n, h)
  BY DerivedOf
<1>3. g \in Stint /\ h \in Stint
  BY StretchesAreSpans, HistoryOf DEF Absorbed
<1>4. n.code = m.code
  <2>1. PICK k \in Lines : NamedAs(m, k)
    BY DerivedFromBars
  <2>2. PICK l \in Lines : NamedAs(n, l)
    BY DerivedFromBars
  <2>3. m.exchange = exchange /\ n.exchange = exchange
    BY DerivedFromBars
  <2>4. (m.code = NoCode) = (n.code = NoCode)
    BY <2>1, <2>2, <2>3, IdentityAssumption DEF NamedAs
  <2>5. QED
    BY <2>4 DEF VenueIdentifier
<1>5. Together(g, h) /\ g.first < h.first
  <2>1. Together(g, h) /\ h.first > g.first
    BY <1>1, <1>2, <1>4 DEF AsListed, Together
  <2>2. h.first \in Nat /\ g.first \in Nat
    BY <1>3, SpanNumbers
  <2>3. QED
    BY ONLY <2>1, <2>2
<1>6. FollowedIn(Group(g, Absorbed), g)
  <2>1. h \in Group(g, Absorbed)
    BY <1>5 DEF Group, Together
  <2>2. h.first > g.first
    BY <1>3, <1>5, SpanNumbers
  <2>3. QED
    BY <2>1, <2>2 DEF FollowedIn
<1>7. m.delisted = g.last /\ n.listed = h.first
  BY <1>1, <1>2, <1>6 DEF AsListed
<1>8. g.last < h.first
  BY <1>5, StretchesAreSpans DEF InTurn
<1>9. g.last \in Nat /\ h.first \in Nat /\ g.last # Never
  BY <1>3 DEF Stint, Days, Never
<1>10. QED
  BY ONLY <1>7, <1>8, <1>9

\* One marked superseded has takers among all the listings.
LEMMA SupersededIsTaken ==
  ASSUME IdentityTypeOK, BarsHeld, NEW n \in DeriveListings, n.reason = "superseded"
  PROVE  Takers(n, DeriveListings) # {}
<1>1. PICK l \in Closed : n = MarkOf(l, Closed) /\ l \in Listing /\ l.reason # "superseded"
  BY DerivedOf
<1>2. /\ n.isin = l.isin /\ n.symbol = l.symbol /\ n.code = l.code /\ n.delisted = l.delisted
      /\ Takers(l, Closed) # {}
  BY <1>1, MarkFields
<1>3. PICK k \in Closed : TookOver(k, l, k.listed, l.delisted)
  BY <1>2 DEF Takers
<1>4. PICK h \in Absorbed : k = CloseListing(h, Absorbed, Latest(held))
  BY DEF Closed
<1>5. k \in Listing
  BY <1>4, ClosedFields
<1> DEFINE m == MarkOf(k, Closed)
<1>6. m.isin = k.isin /\ m.symbol = k.symbol /\ m.code = k.code /\ m.listed = k.listed
  BY <1>5, MarkFields
<1>7. m \in DeriveListings
  BY DerivedAre, DerivedOf
<1>8. TookOver(m, n, m.listed, n.delisted)
  BY <1>2, <1>3, <1>6 DEF TookOver, VenueIdentifier
<1>9. QED
  BY <1>7, <1>8 DEF Takers

\* The links derived leave none of them without a successor.
LEMMA SupersededIsLinked ==
  ASSUME IdentityTypeOK, BarsHeld, NEW n \in DeriveListings, n.reason = "superseded"
  PROVE  \E s \in DeriveSuccessions(DeriveListings) : s.predecessor = n.isin
<1> DEFINE D == DeriveListings
           Q == {m \in D : m.isin = n.isin /\ Takers(m, D) # {}}
           Codes == {m.code : m \in Q}
           AllCodes == {line.code : line \in Lines}
<1>1. n \in Q
  BY SupersededIsTaken
<1>2. \A m \in Q : m.code \in Nat /\ m.listed \in Nat /\ m.listed \in Days
  BY DerivedOf DEF Listing, Days
<1>3. Codes \subseteq AllCodes
  <2>1. SUFFICES ASSUME NEW m \in Q PROVE m.code \in AllCodes
    OBVIOUS
  <2>2. \E line \in Lines : NamedAs(m, line)
    BY DerivedFromBars
  <2>3. QED
    BY <2>2 DEF NamedAs
<1>4. IsFiniteSet(Codes)
  <2>1. IsFiniteSet(Lines)
    BY IdentityAssumption
  <2> DEFINE f == [line \in Lines |-> line.code]
  <2>2. f \in [Lines -> AllCodes] /\ \A c \in AllCodes : \E line \in Lines : f[line] = c
    OBVIOUS
  <2>3. IsFiniteSet(AllCodes)
    <3> HIDE DEF f, AllCodes
    <3>1. f \in Surjection(Lines, AllCodes)
      BY <2>2, Zenon DEF Surjection, Range
    <3>2. QED
      BY <2>1, <3>1, FS_Surjection
  <2>4. QED
    BY <1>3, <2>3, FS_Subset
<1>5. Codes # {} /\ Codes \subseteq Nat
  BY <1>1, <1>2
<1>6. PICK x \in Codes : \A y \in Codes : y <= x
  BY <1>4, <1>5, GreatestNatural
<1> DEFINE Last == {m \in Q : m.code = x}
           Dates == {m.listed : m \in Last}
<1>7. Dates # {} /\ Dates \subseteq 0 .. LastDay /\ LastDay \in Nat
  <2>1. Last # {}
    BY <1>6
  <2>2. LastDay \in Nat /\ \A m \in Last : m.listed \in 0 .. LastDay
    BY <1>2, IdentityAssumption DEF Days
  <2>3. QED
    BY <2>1, <2>2
<1>8. PICK d \in Dates : \A e \in Dates : e <= d
  BY <1>7, GreatestUpTo
<1>9. PICK l \in Last : l.listed = d
  BY <1>8
<1>10. \A m \in Q : m.code < l.code \/ (m.code = l.code /\ m.listed <= l.listed)
  <2>1. SUFFICES ASSUME NEW m \in Q
                 PROVE  m.code < l.code \/ (m.code = l.code /\ m.listed <= l.listed)
    OBVIOUS
  <2>2. m.code <= x /\ l.code = x /\ m.code \in Nat /\ x \in Nat
    BY <1>2, <1>6, <1>9
  <2>3. CASE m.code = x
    <3>1. m.listed <= d
      BY <1>8, <2>3
    <3>2. QED
      BY <1>9, <2>2, <2>3, <3>1
  <2>4. CASE m.code # x
    BY ONLY <2>2, <2>4
  <2>5. QED
    BY <2>3, <2>4
<1> DEFINE s == [predecessor |-> l.isin, successor |-> Successor(l, D).isin,
                 changedOn |-> Successor(l, D).listed]
<1>11. l \in D /\ Takers(l, D) # {} /\ l.isin = n.isin
  OBVIOUS
<1>12. \A m \in D : m.isin = l.isin /\ Takers(m, D) # {}
                      => m.code < l.code \/ (m.code = l.code /\ m.listed <= l.listed)
  BY <1>10, <1>11
<1>13. s \in DeriveSuccessions(D)
  BY <1>11, <1>12 DEF DeriveSuccessions
<1>14. QED
  BY <1>11, <1>13

-----------------------------------------------------------------------------
(* The listings stored.                                                    *)

\* Without a correction, each still has the bar it began with.
StillHaveTheirBar == corrections = 0 => \A r \in listings : \E b \in bars : BeganWith(r, b)

\* A scrip code never disagrees with the one derived for the same row.
Steady == OneCodeATicker \/ corrections = 0

\* Every row bears the names of a line.
NamedAsLines == OneCodeATicker => \A r \in listings : \E line \in Lines : NamedAs(r, line)

\* Derived, the rows stored are those the bars derive, and what they were linked by.
FollowBars ==
  Steady /\ derived => /\ listings = DeriveListings
                       /\ DeriveSuccessions(DeriveListings) \subseteq successions

IdentityIInv ==
  /\ IdentityTypeOK /\ BarsHeld
  /\ \A r \in listings : r.exchange = exchange
  /\ StillHaveTheirBar /\ NamedAsLines /\ FollowBars
  /\ ReachingBackLosesNothing

\* A successor opened just after the day its predecessor closed, under its identifier.
LEMMA SuccessorTakes ==
  ASSUME IdentityTypeOK, BarsHeld, NEW l \in DeriveListings, Takers(l, DeriveListings) # {}
  PROVE  /\ Successor(l, DeriveListings) \in DeriveListings
         /\ LET n == Successor(l, DeriveListings) IN TookOver(n, l, n.listed, l.delisted)
<1> DEFINE D == DeriveListings
<1>1. Takers(l, D) \subseteq D
  BY DEF Takers
<1>2. \A m \in D : m.isin \in Nat /\ m.listed \in Days /\ m.listed \in Nat
  BY DerivedOf DEF Listing, Days
<1>3. \E k \in Takers(l, D) : \A m \in Takers(l, D) :
         k.listed < m.listed \/ (k.listed = m.listed /\ k.isin <= m.isin)
  <2> DEFINE T == Takers(l, D)
             Dates == {m.listed : m \in T}
  <2> HIDE DEF T, D
  <2>0. T \subseteq D /\ T # {}
    BY <1>1 DEF T, D
  <2>1. Dates \subseteq Nat /\ Dates # {}
    BY <1>2, <2>0
  <2>2. PICK d \in Dates : \A e \in Dates : d <= e
    BY <2>1, LeastNatural
  <2> DEFINE First == {m \in T : m.listed = d}
             Isins == {m.isin : m \in First}
  <2>3. Isins \subseteq Nat /\ Isins # {}
    BY <1>2, <2>0, <2>2
  <2>4. PICK i \in Isins : \A j \in Isins : i <= j
    BY <2>3, LeastNatural
  <2>5. PICK k \in First : k.isin = i
    BY <2>4
  <2>6. ASSUME NEW m \in T
        PROVE  k.listed < m.listed \/ (k.listed = m.listed /\ k.isin <= m.isin)
    <3>1. d <= m.listed /\ k.listed = d
      BY <2>2
    <3>2. d \in Nat /\ m.listed \in Nat
      BY <1>2, <2>0, <2>1
    <3>3. CASE m.listed = d
      BY <2>4, <2>5, <3>1, <3>3
    <3>4. CASE m.listed # d
      BY ONLY <3>1, <3>2, <3>4
    <3>5. QED
      BY <3>3, <3>4
  <2>7. k \in T
    OBVIOUS
  <2>8. QED
    BY <2>6, <2>7 DEF T
<1>4. Successor(l, D) \in Takers(l, D)
  BY <1>3, Zenon DEF Successor
<1>5. QED
  BY <1>1, <1>4, Zenon DEF Takers

\* The successions derived are rows of the table.
LEMMA SuccessionsTyped ==
  ASSUME IdentityTypeOK, BarsHeld
  PROVE  DeriveSuccessions(DeriveListings) \subseteq Succession
<1> DEFINE D == DeriveListings
<1>1. SUFFICES ASSUME NEW s \in DeriveSuccessions(D) PROVE s \in Succession
  OBVIOUS
<1>2. PICK l \in D : /\ Takers(l, D) # {}
                     /\ s = [predecessor |-> l.isin, successor |-> Successor(l, D).isin,
                             changedOn |-> Successor(l, D).listed]
  BY <1>1, Zenon DEF DeriveSuccessions
<1>3. Successor(l, D) \in D
  BY <1>2, SuccessorTakes
<1>4. \A m \in D : m.isin \in Nat /\ m.listed \in Days
  BY DerivedOf DEF Listing
<1>5. Successor(l, D).isin \in Nat /\ Successor(l, D).listed \in Days /\ l.isin \in Nat
  BY <1>3, <1>4
<1> HIDE DEF D
<1>6. QED
  BY <1>2, <1>5 DEF Succession

\* A row written is a derived one, under the scrip code of the row it meets.
LEMMA UpsertedFields ==
  ASSUME IdentityTypeOK, BarsHeld,
         NEW r \in Upserted(listings, DeriveListings)
  PROVE  \/ r \in listings /\ Key(r) \notin Keys(DeriveListings)
         \/ \E n \in DeriveListings :
              /\ r \in Listing /\ Key(r) = Key(n)
              /\ r = n \/ \E old \in listings : /\ Key(old) = Key(n)
                                                /\ r = [n EXCEPT !.code = old.code]
<1> DEFINE D == DeriveListings
           OfKey(n) == {old \in listings : Key(old) = Key(n)}
<1>1. CASE r \in listings /\ Key(r) \notin Keys(D)
  BY <1>1
<1>2. ASSUME NEW n \in D,
             r = IF \E old \in listings : Key(old) = Key(n)
                 THEN [n EXCEPT !.code = (CHOOSE old \in listings : Key(old) = Key(n)).code]
                 ELSE n
      PROVE  /\ r \in Listing /\ Key(r) = Key(n)
             /\ r = n \/ \E old \in listings : /\ Key(old) = Key(n)
                                               /\ r = [n EXCEPT !.code = old.code]
  <2>1. n \in Listing
    BY DerivedOf
  <2>2. CASE ~ \E old \in listings : Key(old) = Key(n)
    BY <1>2, <2>1, <2>2
  <2>3. CASE \E old \in listings : Key(old) = Key(n)
    <3> DEFINE old == CHOOSE old \in listings : Key(old) = Key(n)
    <3>1. old \in listings /\ Key(old) = Key(n)
      BY <2>3
    <3>2. r = [n EXCEPT !.code = old.code]
      BY <1>2, <2>3
    <3>3. old.code \in Nat
      BY <3>1 DEF IdentityTypeOK, Listing
    <3>4. r \in Listing /\ Key(r) = Key(n)
      <4> HIDE DEF old, D
      <4>1. QED
        BY <2>1, <3>2, <3>3 DEF Listing, Key
    <3>5. QED
      BY <3>1, <3>2, <3>4
  <2>4. QED
    BY <2>2, <2>3
<1>3. QED
  BY <1>1, <1>2, Zenon DEF Upserted

\* Nothing vanishes without a correction: the bar a stored listing began with has
\* a derived one.
LEMMA NothingVanishes ==
  ASSUME IdentityIInv, corrections = 0
  PROVE  Vanished(Upserted(listings, DeriveListings), DeriveListings) = {}
<1> DEFINE D == DeriveListings
<1>1. SUFFICES ASSUME NEW r \in Vanished(Upserted(listings, D), D) PROVE FALSE
  OBVIOUS
<1>2. /\ r \in Upserted(listings, D) /\ Key(r) \notin Keys(D)
      /\ ~\E n \in D : n.isin = r.isin /\ VenueIdentifier(n) = VenueIdentifier(r)
  BY <1>1 DEF Vanished, Stale
<1>3. r \in listings
  <2>1. \A n \in D : Key(n) \in Keys(D)
    BY DEF Keys
  <2>2. QED
    BY <1>2, <2>1, UpsertedFields DEF IdentityIInv
<1>4. PICK b \in bars : BeganWith(r, b)
  BY <1>3 DEF IdentityIInv, StillHaveTheirBar
<1>5. b.line.isin = r.isin /\ VenueIdentifier(b.line) = VenueIdentifier(r)
  BY <1>4 DEF BeganWith, VenueIdentifier
<1>6. QED
  BY <1>2, <1>5, EveryBarContinues DEF IdentityIInv

\* The rows left are those written.
LEMMA RowsLeft ==
  ASSUME IdentityTypeOK, BarsHeld,
         NEW r \in Upserted(listings, DeriveListings)
                     \ Stale(Upserted(listings, DeriveListings), DeriveListings)
  PROVE  \E n \in DeriveListings :
            /\ r \in Listing /\ Key(r) = Key(n)
            /\ r = n \/ \E old \in listings : /\ Key(old) = Key(n)
                                              /\ r = [n EXCEPT !.code = old.code]
<1>1. Key(r) \in Keys(DeriveListings)
  BY DEF Stale
<1>2. QED
  BY <1>1, UpsertedFields

\* A row and the derived one of its key have one scrip code, while none was corrected
\* or where an instrument has one to a ticker.
LEMMA CodesAgree ==
  ASSUME IdentityIInv, Steady, NEW old \in listings, NEW n \in DeriveListings,
         Key(old) = Key(n)
  PROVE  old.code = n.code
<1>1. /\ old.isin = n.isin /\ old.exchange = n.exchange /\ old.symbol = n.symbol
      /\ old.listed = n.listed
  BY DEF Key
<1>2. IdentityTypeOK /\ BarsHeld
  BY DEF IdentityIInv
<1>3. CASE OneCodeATicker
  <2>1. PICK a \in Lines : NamedAs(old, a)
    BY <1>3 DEF IdentityIInv, NamedAsLines
  <2>2. PICK b \in Lines : NamedAs(n, b)
    BY <1>2, DerivedFromBars
  <2>3. a.code = b.code
    BY <1>1, <1>3, <2>1, <2>2 DEF NamedAs, OneCodeATicker
  <2>4. QED
    BY <2>1, <2>2, <2>3 DEF NamedAs
<1>4. CASE corrections = 0
  <2>1. PICK a \in bars : BeganWith(old, a)
    BY <1>4 DEF IdentityIInv, StillHaveTheirBar
  <2>2. PICK b \in bars : BeganWith(n, b)
    BY <1>2, DerivedFromBars
  <2>3. a = b
    BY <1>1, <1>2, <2>1, <2>2 DEF BeganWith, BarsHeld
  <2>4. QED
    BY <2>1, <2>2, <2>3 DEF BeganWith
<1>5. QED
  BY <1>3, <1>4 DEF Steady

\* Upserted and with the stale rows retired, the rows stored are those derived.
LEMMA WrittenAreDerived ==
  ASSUME IdentityIInv, Steady
  PROVE  Upserted(listings, DeriveListings)
           \ Stale(Upserted(listings, DeriveListings), DeriveListings) = DeriveListings
<1> DEFINE D == DeriveListings
           U == Upserted(listings, D)
           Row(n) == IF \E old \in listings : Key(old) = Key(n)
                     THEN [n EXCEPT !.code = (CHOOSE old \in listings : Key(old) = Key(n)).code]
                     ELSE n
<1>0. IdentityTypeOK /\ BarsHeld
  BY DEF IdentityIInv
<1>1. ASSUME NEW n \in D, NEW old \in listings, Key(old) = Key(n)
      PROVE  [n EXCEPT !.code = old.code] = n
  <2>1. old.code = n.code
    BY <1>1, CodesAgree
  <2>2. n \in Listing
    BY <1>0, DerivedOf
  <2> HIDE DEF D
  <2>3. QED
    BY <2>1, <2>2 DEF Listing
<1>2. ASSUME NEW r \in U \ Stale(U, D) PROVE r \in D
  BY <1>0, <1>1, RowsLeft
<1>3. ASSUME NEW n \in D PROVE n \in U \ Stale(U, D)
  <2>1. Row(n) = n
    <3>1. CASE \E old \in listings : Key(old) = Key(n)
      <4> DEFINE old == CHOOSE old \in listings : Key(old) = Key(n)
      <4>1. old \in listings /\ Key(old) = Key(n)
        BY <3>1
      <4>2. [n EXCEPT !.code = old.code] = n
        BY <1>1, <4>1
      <4>3. QED
        BY <3>1, <4>2
    <3>2. QED
      BY <3>1
  <2>2. Row(n) \in U
    BY Zenon DEF Upserted
  <2>3. Key(n) \in Keys(D)
    BY DEF Keys
  <2>4. QED
    BY <2>1, <2>2, <2>3 DEF Stale
<1>4. QED
  BY <1>2, <1>3

-----------------------------------------------------------------------------
(* The steps.                                                              *)

\* What the bars derive changes with the bars and the days stored alone.
LEMMA DerivedUnchanged ==
  ASSUME UNCHANGED <<exchange, bars, held>>
  PROVE  DeriveListings' = DeriveListings
<1>1. ReadStretches' = ReadStretches
  BY DEF ReadStretches, Stretch, DaysFrom, Opens, SameLine, Latest
<1>2. QED
  BY <1>1 DEF DeriveListings

\* A database without bars derives no listing.
LEMMA IdentityInitInvariant == IdentityInit => IdentityIInv
<1>1. SUFFICES ASSUME IdentityInit PROVE IdentityIInv
  OBVIOUS
<1>2. DeriveListings = {}
  BY <1>1 DEF IdentityInit, DeriveListings
<1>3. DeriveSuccessions({}) = {}
  BY DEF DeriveSuccessions
<1>4. IdentityTypeOK
  <2>1. 0 \in 0 .. MaxCorrections
    BY IdentityAssumption
  <2>2. QED
    BY <1>1, <2>1, Zenon DEF IdentityInit, IdentityTypeOK
<1>5. QED
  BY <1>1, <1>2, <1>3, <1>4 DEF IdentityInit, IdentityIInv, BarsHeld, StillHaveTheirBar,
     NamedAsLines, FollowBars, ReachingBackLosesNothing

\* A day stored adds bars and leaves the rows as they were.
LEMMA StoreDayInvariant ==
  ASSUME IdentityIInv, NEW d \in Days, StoreDay(d)
  PROVE  IdentityIInv'
<1>1. PICK file \in Files(d) : bars' = bars \union {[line |-> l, day |-> d] : l \in file}
  BY DEF StoreDay
<1>2. /\ d \notin held /\ held' = held \union {d} /\ derived' = FALSE
      /\ exchange' = exchange /\ listings' = listings /\ successions' = successions
      /\ lost' = lost /\ corrections' = corrections
  BY DEF StoreDay
<1>3. /\ \A l \in file : l \in Lines /\ l.exchange = exchange /\ l \in Line
      /\ \A k, l \in file : k.isin = l.isin => k = l
  <2>1. LinesOf[d] \subseteq Lines /\ Lines \subseteq Line
    BY IdentityAssumption
  <2>2. QED
    BY <2>1 DEF Files
<1>4. IdentityTypeOK'
  <2>1. bars \subseteq Bar /\ \A l \in file : [line |-> l, day |-> d] \in Bar
    BY <1>3 DEF IdentityIInv, IdentityTypeOK, Bar
  <2>2. bars' \subseteq Bar
    BY <1>1, <2>1
  <2>3. QED
    BY <1>2, <2>2, Zenon DEF IdentityIInv, IdentityTypeOK
<1>5. BarsHeld'
  <2>1. \A b \in bars : b.line \in Lines /\ b.line.exchange = exchange /\ b.day \in held
    BY DEF IdentityIInv, BarsHeld
  <2>2. ASSUME NEW b \in bars', b \notin bars
        PROVE  /\ b.line \in file /\ b.day = d /\ b = [line |-> b.line, day |-> d]
    BY <1>1, <2>2
  <2>3. \A b \in bars' : b.line \in Lines /\ b.line.exchange = exchange' /\ b.day \in held'
    BY <1>2, <1>3, <2>1, <2>2
  <2>4. ASSUME NEW a \in bars', NEW b \in bars', a.day = b.day, a.line.isin = b.line.isin
        PROVE  a = b
    <3>1. CASE a \in bars /\ b \in bars
      BY <2>4, <3>1 DEF IdentityIInv, BarsHeld
    <3>2. CASE a \notin bars /\ b \notin bars
      BY <1>3, <2>2, <2>4, <3>2
    <3>3. CASE a \in bars /\ b \notin bars
      BY <1>2, <2>1, <2>2, <2>4, <3>3
    <3>4. CASE a \notin bars /\ b \in bars
      BY <1>2, <2>1, <2>2, <2>4, <3>4
    <3>5. QED
      BY <3>1, <3>2, <3>3, <3>4
  <2>5. QED
    BY <2>3, <2>4 DEF BarsHeld
<1>6. StillHaveTheirBar'
  BY <1>1, <1>2 DEF IdentityIInv, StillHaveTheirBar, BeganWith
<1>7. NamedAsLines' /\ ReachingBackLosesNothing' /\ FollowBars'
  BY <1>2 DEF IdentityIInv, NamedAsLines, NamedAs, OneCodeATicker, FollowBars,
     ReachingBackLosesNothing
<1>8. QED
  BY <1>2, <1>4, <1>5, <1>6, <1>7 DEF IdentityIInv

\* A correction renames one bar of its instrument.
LEMMA CorrectDayInvariant ==
  ASSUME IdentityIInv, NEW b \in bars, CorrectDay(b)
  PROVE  IdentityIInv'
<1>1. PICK line \in Lines :
        /\ line.isin = b.line.isin /\ line.exchange = exchange
        /\ bars' = (bars \ {b}) \union {[b EXCEPT !.line = line]}
  BY DEF CorrectDay
<1>2. /\ corrections < MaxCorrections /\ corrections' = corrections + 1 /\ derived' = FALSE
      /\ exchange' = exchange /\ held' = held /\ listings' = listings
      /\ successions' = successions /\ lost' = lost
  BY DEF CorrectDay
<1>3. corrections' \in 0 .. MaxCorrections /\ corrections' > 0 /\ corrections' # 0
  BY <1>2, IdentityAssumption DEF IdentityIInv, IdentityTypeOK
<1> DEFINE c == [b EXCEPT !.line = line]
<1>4. IdentityTypeOK /\ BarsHeld
  BY DEF IdentityIInv
<1>5. c.line = line /\ c.day = b.day /\ c \in Bar /\ line \in Line
  BY <1>4, IdentityAssumption DEF IdentityTypeOK, Bar
<1>6. IdentityTypeOK'
  BY <1>1, <1>2, <1>3, <1>4, <1>5 DEF IdentityTypeOK
<1>7. BarsHeld'
  <2> HIDE DEF c
  <2>1. \A a \in bars' : a = c \/ (a \in bars /\ a # b)
    BY <1>1 DEF c
  <2>2. c.day \in held /\ c.line.isin = b.line.isin /\ c.line.exchange = exchange
    BY <1>1, <1>4, <1>5 DEF BarsHeld
  <2>3. \A a \in bars' : a.line \in Lines /\ a.line.exchange = exchange /\ a.day \in held
    BY <1>4, <1>5, <2>1, <2>2 DEF BarsHeld
  <2>4. \A a, e \in bars' : a.day = e.day /\ a.line.isin = e.line.isin => a = e
    BY <1>4, <1>5, <2>1, <2>2, Zenon DEF BarsHeld
  <2>5. QED
    BY <1>2, <2>3, <2>4 DEF BarsHeld
<1>8. StillHaveTheirBar' /\ NamedAsLines' /\ FollowBars' /\ ReachingBackLosesNothing'
  BY <1>2, <1>3 DEF IdentityIInv, StillHaveTheirBar, NamedAsLines, NamedAs, OneCodeATicker,
     FollowBars, ReachingBackLosesNothing
<1>9. QED
  BY <1>2, <1>6, <1>7, <1>8 DEF IdentityIInv

\* A derivation writes the listings of the bars and links their successions.
LEMMA DeriveInvariant ==
  ASSUME IdentityIInv, DeriveIdentity
  PROVE  IdentityIInv'
<1> DEFINE D == DeriveListings
           U == Upserted(listings, D)
<1>1. /\ listings' = U \ Stale(U, D)
      /\ successions' = Linked(successions, DeriveSuccessions(D))
      /\ lost' = FALSE /\ exchange' = exchange /\ bars' = bars /\ held' = held
      /\ corrections' = corrections /\ derived' = TRUE
  BY DEF DeriveIdentity
<1>2. IdentityTypeOK /\ BarsHeld
  BY DEF IdentityIInv
<1>3. ASSUME NEW r \in listings'
      PROVE  /\ r \in Listing /\ r.exchange = exchange
             /\ \E n \in D : /\ Key(r) = Key(n) /\ n \in Listing
                             /\ r = n \/ \E old \in listings :
                                           Key(old) = Key(n) /\ r = [n EXCEPT !.code = old.code]
  <2>1. PICK n \in D : /\ r \in Listing /\ Key(r) = Key(n)
                       /\ r = n \/ \E old \in listings : /\ Key(old) = Key(n)
                                                         /\ r = [n EXCEPT !.code = old.code]
    BY <1>1, <1>2, RowsLeft
  <2>2. n.exchange = exchange /\ n \in Listing
    BY <1>2, DerivedFromBars, DerivedOf
  <2>3. r.exchange = exchange
    BY <2>1, <2>2 DEF Key
  <2>4. QED
    BY <2>1, <2>2, <2>3
<1>4. IdentityTypeOK'
  <2>1. successions' \subseteq Succession
    BY <1>1, <1>2, SuccessionsTyped DEF Linked, IdentityTypeOK
  <2>2. QED
    BY <1>1, <1>2, <1>3, <2>1 DEF IdentityTypeOK
<1>5. BarsHeld'
  BY <1>1, <1>2 DEF BarsHeld
<1>6. Steady => listings' = D
  BY <1>1, WrittenAreDerived
<1>7. StillHaveTheirBar'
  <2>1. SUFFICES ASSUME corrections = 0, NEW r \in listings'
                 PROVE  \E b \in bars : BeganWith(r, b)
    BY <1>1 DEF StillHaveTheirBar, BeganWith
  <2>2. r \in D
    BY <1>6, <2>1 DEF Steady
  <2>3. QED
    BY <1>2, <2>2, DerivedFromBars
<1>8. NamedAsLines'
  <2>1. SUFFICES ASSUME OneCodeATicker, NEW r \in listings'
                 PROVE  \E line \in Lines : NamedAs(r, line)
    BY DEF NamedAsLines, NamedAs, OneCodeATicker
  <2>2. r \in D
    BY <1>6, <2>1 DEF Steady
  <2>3. QED
    BY <1>2, <2>2, DerivedFromBars
<1>9. FollowBars'
  <2>1. DeriveListings' = D
    BY <1>1, DerivedUnchanged
  <2>2. DeriveSuccessions(D) \subseteq successions'
    BY <1>1 DEF Linked
  <2>3. Steady' => Steady
    BY <1>1 DEF Steady, OneCodeATicker
  <2>4. DeriveSuccessions(DeriveListings)' = DeriveSuccessions(D)
    BY <2>1 DEF DeriveSuccessions, Successor, Takers
  <2>5. QED
    BY <1>6, <2>1, <2>2, <2>3, <2>4 DEF FollowBars
<1>10. ReachingBackLosesNothing'
  BY <1>1 DEF ReachingBackLosesNothing
<1>11. \A r \in listings' : r.exchange = exchange'
  BY <1>1, <1>3
<1>12. QED
  BY <1>4, <1>5, <1>7, <1>8, <1>9, <1>10, <1>11 DEF IdentityIInv

\* A derivation is refused only for a row no derived one continues: never where each
\* row still has the bar it began with.
LEMMA RefuseInvariant ==
  ASSUME IdentityIInv, RefuseIdentity
  PROVE  IdentityIInv'
<1>1. /\ exchange' = exchange /\ bars' = bars /\ held' = held /\ listings' = listings
      /\ successions' = successions /\ derived' = derived /\ corrections' = corrections
      /\ lost' = TRUE /\ derived = FALSE
  BY DEF RefuseIdentity, IdentityIInv, IdentityTypeOK
<1>2. corrections # 0
  <2>1. ASSUME corrections = 0 PROVE FALSE
    <3>1. Vanished(Upserted(listings, DeriveListings), DeriveListings) = {}
      BY <2>1, NothingVanishes
    <3>2. Cardinality({}) > VanishedLimit
      BY <3>1 DEF RefuseIdentity
    <3>3. QED
      BY <3>2, FS_EmptySet, IdentityAssumption
  <2>2. QED
    BY <2>1
<1>3. corrections > 0
  BY <1>2 DEF IdentityIInv, IdentityTypeOK
<1>4. IdentityTypeOK' /\ BarsHeld'
  BY <1>1 DEF IdentityIInv, IdentityTypeOK, BarsHeld
<1>5. StillHaveTheirBar' /\ NamedAsLines' /\ FollowBars' /\ ReachingBackLosesNothing'
  BY <1>1, <1>3 DEF IdentityIInv, StillHaveTheirBar, BeganWith, NamedAsLines, NamedAs,
     OneCodeATicker, FollowBars, ReachingBackLosesNothing
<1>6. QED
  BY <1>1, <1>4, <1>5 DEF IdentityIInv

\* Every step keeps the invariant.
LEMMA IdentityNextInvariant == IdentityIInv /\ [IdentityNext]_identityVars => IdentityIInv'
<1>1. SUFFICES ASSUME IdentityIInv, [IdentityNext]_identityVars PROVE IdentityIInv'
  OBVIOUS
<1>2. CASE DeriveIdentity
  BY <1>1, <1>2, DeriveInvariant
<1>3. CASE RefuseIdentity
  BY <1>1, <1>3, RefuseInvariant
<1>4. CASE \E d \in Days : StoreDay(d)
  BY <1>1, <1>4, StoreDayInvariant
<1>5. CASE \E b \in bars : CorrectDay(b)
  BY <1>1, <1>5, CorrectDayInvariant
<1>6. CASE UNCHANGED identityVars
  <2>1. UNCHANGED <<exchange, bars, held, listings, successions, derived, lost, corrections>>
    BY <1>6 DEF identityVars
  <2>2. DeriveListings' = DeriveListings
    BY <2>1, DerivedUnchanged
  <2>3. DeriveSuccessions(DeriveListings)' = DeriveSuccessions(DeriveListings)
    BY <2>2 DEF DeriveSuccessions, Successor, Takers
  <2>4. IdentityTypeOK' /\ BarsHeld' /\ ReachingBackLosesNothing'
    BY <1>1, <2>1 DEF IdentityIInv, IdentityTypeOK, BarsHeld, ReachingBackLosesNothing
  <2>5. StillHaveTheirBar' /\ NamedAsLines'
    BY <1>1, <2>1 DEF IdentityIInv, StillHaveTheirBar, BeganWith, NamedAsLines, NamedAs,
       OneCodeATicker
  <2>6. FollowBars'
    BY <1>1, <2>1, <2>2, <2>3 DEF IdentityIInv, FollowBars, Steady, OneCodeATicker
  <2>7. QED
    BY <1>1, <2>1, <2>4, <2>5, <2>6 DEF IdentityIInv
<1>7. QED
  BY <1>1, <1>2, <1>3, <1>4, <1>5, <1>6 DEF IdentityNext

\* The invariant holds throughout.
LEMMA IdentityInductive == IdentitySpec => []IdentityIInv
<1>1. QED
  BY IdentityInitInvariant, IdentityNextInvariant, PTL DEF IdentitySpec

\* What the state holds is of its type, whatever the venue's files.
THEOREM IdentityTypeCorrect == IdentitySpec => []IdentityTypeOK
<1>1. IdentityIInv => IdentityTypeOK
  BY DEF IdentityIInv
<1>2. QED
  BY <1>1, IdentityInductive, PTL

\* Days stored in any order never make `retire_listings` refuse a derivation.
THEOREM ReachingBackNeverRefuses == IdentitySpec => []ReachingBackLosesNothing
<1>1. IdentityIInv => ReachingBackLosesNothing
  BY DEF IdentityIInv
<1>2. QED
  BY <1>1, IdentityInductive, PTL

\* Listings that follow the bars pass the checks.
LEMMA DerivedPassChecks == IdentityIInv /\ Steady => IdentityPassesItsChecks
<1>1. SUFFICES ASSUME IdentityIInv, Steady, derived
               PROVE  OrphanedBars = {} /\ StretchesOverlap = {} /\ SupersededAlone = {}
  BY DEF IdentityPassesItsChecks
<1>2. /\ IdentityTypeOK /\ BarsHeld /\ listings = DeriveListings
      /\ DeriveSuccessions(DeriveListings) \subseteq successions
  BY <1>1 DEF IdentityIInv, FollowBars
<1>3. OrphanedBars = {}
  BY <1>2, DerivedCover DEF OrphanedBars
<1>4. StretchesOverlap = {}
  <2>1. SUFFICES ASSUME NEW pair \in StretchesOverlap PROVE FALSE
    OBVIOUS
  <2>2. /\ pair[1] \in DeriveListings /\ pair[2] \in DeriveListings
        /\ pair[2].isin = pair[1].isin
        /\ VenueIdentifier(pair[2]) = VenueIdentifier(pair[1])
        /\ pair[2].listed > pair[1].listed
        /\ pair[1].delisted = Never \/ pair[2].listed <= pair[1].delisted
    BY <1>2, <2>1 DEF StretchesOverlap
  <2>3. pair[1].delisted # Never /\ pair[2].listed > pair[1].delisted
    BY <1>2, <2>2, DerivedApart
  <2>4. pair[2].listed \in Nat /\ pair[1].delisted \in Nat
    BY <1>2, <2>2, DerivedOf DEF Listing, Days, Never
  <2>5. QED
    BY ONLY <2>2, <2>3, <2>4
<1>5. SupersededAlone = {}
  BY <1>2, SupersededIsLinked DEF SupersededAlone
<1>6. QED
  BY <1>3, <1>4, <1>5

\* Whatever the order the days were stored in and however they were corrected, an
\* identity derived passes the blocking checks, where an instrument has one scrip code
\* to a ticker.
THEOREM DerivedIdentityPasses ==
  ASSUME OneCodeATicker
  PROVE  IdentitySpec => []IdentityPassesItsChecks
<1>1. Steady
  BY DEF Steady
<1>2. IdentityIInv => IdentityPassesItsChecks
  BY <1>1, DerivedPassChecks
<1>3. QED
  BY <1>2, IdentityInductive, PTL

\* Days stored in any order, none of them corrected, derive an identity that passes,
\* whatever codes the venue gives.
THEOREM ReachingBackPasses ==
  IdentitySpec => [](corrections = 0 => IdentityPassesItsChecks)
<1>1. IdentityIInv => (corrections = 0 => IdentityPassesItsChecks)
  BY DerivedPassChecks DEF Steady
<1>2. QED
  BY <1>1, IdentityInductive, PTL

\* The listings of an identity derived are a function of the bars: `close_listings`
\* neither keeps nor loses any for the order the days came in.
THEOREM ListingsFollowBars ==
  ASSUME OneCodeATicker
  PROVE  IdentitySpec => [](derived => listings = DeriveListings)
<1>1. IdentityIInv => (derived => listings = DeriveListings)
  BY DEF IdentityIInv, FollowBars, Steady
<1>2. QED
  BY <1>1, IdentityInductive, PTL

-----------------------------------------------------------------------------
(* The successions.                                                        *)
(*                                                                         *)
(* The argument: only the last listing of a line is taken over, so where   *)
(* an instrument has one line (OneCodeAnIsin) its last day of trading is   *)
(* before that of the one that follows it, and those days order the links  *)
(* of one derivation.  A link stored may be of an earlier one, made while  *)
(* days were missing: it leads from a line filed before to one filed on    *)
(* the day it changed (LinksFiled), which orders it with the rest where    *)
(* the lines of an identifier are filed one after another.                 *)

\* A listing taken over closed the last history of its line.
LEMMA TakenIsLast ==
  ASSUME IdentityTypeOK, BarsHeld, NEW n \in DeriveListings, Takers(n, DeriveListings) # {}
  PROVE  \E h \in Absorbed : /\ AsListed(n, h) /\ n.delisted = h.last
                             /\ ~FollowedIn(Group(h, Absorbed), h)
<1> DEFINE Close(h) == CloseListing(h, Absorbed, Latest(held))
<1>1. PICK l \in Closed : n = MarkOf(l, Closed)
  BY DerivedOf, DerivedAre
<1>2. PICK h \in Absorbed : l = Close(h)
  BY DEF Closed
<1>3. l \in Listing /\ AsListed(l, h) /\ l.reason # "superseded"
  BY <1>2, ClosedFields
<1>4. /\ AsListed(n, h) /\ n.delisted = l.delisted
      /\ n.reason = IF Takers(l, Closed) # {} THEN "superseded" ELSE l.reason
  BY <1>1, <1>3, MarkFields DEF AsListed
<1>5. n.reason \in {"delisted", "superseded"}
  BY DEF Takers
<1>6. l.reason \in {"delisted", "superseded"}
  BY <1>4, <1>5 DEF Takers
<1>7. l.reason = "delisted"
  BY <1>3, <1>6
<1>8. l.delisted = h.last /\ ~FollowedIn(Group(h, Absorbed), h)
  BY <1>2, <1>7, Zenon DEF CloseListing
<1>9. QED
  BY <1>4, <1>8

\* A succession derived is of a listing and its successor.
LEMMA LinkOf ==
  ASSUME IdentityTypeOK, BarsHeld, NEW s \in DeriveSuccessions(DeriveListings)
  PROVE  \E l \in DeriveListings : \E n \in DeriveListings :
            /\ Takers(l, DeriveListings) # {} /\ TookOver(n, l, n.listed, l.delisted)
            /\ s.predecessor = l.isin /\ s.successor = n.isin /\ s.changedOn = n.listed
<1> DEFINE D == DeriveListings
<1>1. PICK l \in D : /\ Takers(l, D) # {}
                     /\ s = [predecessor |-> l.isin, successor |-> Successor(l, D).isin,
                             changedOn |-> Successor(l, D).listed]
  BY Zenon DEF DeriveSuccessions
<1>2. Successor(l, D) \in D /\ TookOver(Successor(l, D), l, Successor(l, D).listed, l.delisted)
  BY <1>1, SuccessorTakes
<1> HIDE DEF D
<1>3. s.predecessor = l.isin /\ s.successor = Successor(l, D).isin
      /\ s.changedOn = Successor(l, D).listed
  BY <1>1
<1>4. QED
  BY <1>1, <1>2, <1>3 DEF D

\* Where an instrument has one code, its bars are all of one line.
LEMMA OneLineEach ==
  ASSUME IdentityTypeOK, BarsHeld, OneCodeAnIsin,
         NEW m \in DeriveListings, NEW n \in DeriveListings, m.isin = n.isin
  PROVE  m.code = n.code
<1>1. PICK a \in Lines : NamedAs(m, a)
  BY DerivedFromBars
<1>2. PICK b \in Lines : NamedAs(n, b)
  BY DerivedFromBars
<1>3. m.exchange = exchange /\ n.exchange = exchange
  BY DerivedFromBars
<1>4. CASE exchange = "NSE"
  BY <1>1, <1>2, <1>3, <1>4, IdentityAssumption DEF NamedAs
<1>5. CASE exchange # "NSE"
  BY <1>1, <1>2, <1>3, <1>5 DEF NamedAs, OneCodeAnIsin
<1>6. QED
  BY <1>4, <1>5

\* Histories of one line begin on different days.
LEMMA HistoriesDiffer ==
  ASSUME NEW S, S \subseteq Stint, InTurn(S),
         \A s, t \in S : s.isin = t.isin /\ s.first = t.first => s = t,
         NEW g \in AbsorbUntickered(S), NEW h \in AbsorbUntickered(S),
         Together(g, h), g.first = h.first
  PROVE  g = h
<1>1. PICK t1 \in S \ Folded(S), s1 \in S : /\ g = Widened(t1, Folded(S), S) /\ IsOf(g, t1, s1)
                                            /\ s1 = t1 \/ FoldedInto(s1, t1, S)
  BY HistoryOf
<1>2. PICK t2 \in S \ Folded(S), s2 \in S : /\ h = Widened(t2, Folded(S), S) /\ IsOf(h, t2, s2)
                                            /\ s2 = t2 \/ FoldedInto(s2, t2, S)
  BY HistoryOf
<1>3. s1.isin = s2.isin /\ s1.first = s2.first
  BY <1>1, <1>2 DEF IsOf, Together
<1>4. s1 = s2
  BY <1>3
<1>5. t1 = t2
  BY <1>1, <1>2, <1>4 DEF FoldedInto
<1>6. QED
  BY <1>1, <1>2, <1>5

\* So one taken over has no bar after the day it closed.
LEMMA TakenTradesNoMore ==
  ASSUME IdentityTypeOK, BarsHeld, OneCodeAnIsin,
         NEW l \in DeriveListings, Takers(l, DeriveListings) # {},
         NEW b \in bars, b.line.isin = l.isin
  PROVE  b.day <= l.delisted /\ l.delisted \in Days
<1>1. PICK h \in Absorbed : /\ AsListed(l, h) /\ l.delisted = h.last
                            /\ ~FollowedIn(Group(h, Absorbed), h)
  BY TakenIsLast
<1>2. PICK s \in ReadStretches : s.isin = b.line.isin /\ s.first <= b.day /\ b.day <= s.last
  BY BarInAStretch
<1>3. PICK g \in Absorbed : Together(g, s) /\ g.first <= s.first /\ s.last <= g.last
  BY StretchesAreSpans, HistoryHolds DEF Absorbed
<1>4. PICK n \in DeriveListings : AsListed(n, g)
  BY DerivedHas, BarFields
<1>5. n.isin = l.isin /\ n.code = l.code
  <2>1. n.isin = l.isin
    BY <1>2, <1>3, <1>4 DEF AsListed, Together
  <2>2. QED
    BY <2>1, OneLineEach
<1>6. Together(g, h)
  BY <1>1, <1>4, <1>5 DEF AsListed, Together
<1>7. g \in Stint /\ h \in Stint /\ s \in Stint /\ InTurn(Absorbed)
      /\ g.first <= g.last /\ h.first <= h.last
  BY StretchesAreSpans, HistoryOf DEF Absorbed
<1>8. /\ g.first \in Nat /\ g.last \in Nat /\ h.first \in Nat /\ h.last \in Nat
      /\ h.last \in Days /\ s.first \in Nat /\ s.last \in Nat /\ b.day \in Nat
  BY <1>7, SpanNumbers, BarFields
<1>9. g.first <= h.first
  <2>1. SUFFICES ASSUME ~(g.first <= h.first) PROVE FALSE
    OBVIOUS
  <2>2. g.first > h.first
    BY ONLY <1>8, <2>1
  <2>3. g \in Group(h, Absorbed)
    BY <1>6 DEF Group, Together
  <2>4. QED
    BY <1>1, <2>2, <2>3 DEF FollowedIn
<1>10. g.last <= h.last
  <2>1. CASE g.first = h.first
    <3>1. g = h
      BY <1>6, <2>1, StretchesAreSpans, HistoriesDiffer DEF Absorbed
    <3>2. QED
      BY ONLY <1>8, <3>1
  <2>2. CASE g.first # h.first
    <3>1. g.first < h.first
      BY ONLY <1>8, <1>9, <2>2
    <3>2. g.last < h.first
      BY <1>6, <1>7, <3>1 DEF InTurn
    <3>3. QED
      BY ONLY <1>7, <1>8, <3>2
  <2>3. QED
    BY <2>1, <2>2
<1>11. b.day <= h.last
  BY ONLY <1>2, <1>3, <1>8, <1>10
<1>12. QED
  BY <1>1, <1>8, <1>11

\* A succession derived leads on.
LEMMA LinksLeadOn ==
  ASSUME IdentityTypeOK, BarsHeld, OneCodeAnIsin,
         NEW s \in DeriveSuccessions(DeriveListings)
  PROVE  /\ \A d \in TradedOn(s.predecessor) : d < s.changedOn
         /\ s.changedOn \in TradedOn(s.successor)
<1>1. PICK l \in DeriveListings, n \in DeriveListings :
         /\ Takers(l, DeriveListings) # {} /\ TookOver(n, l, n.listed, l.delisted)
         /\ s.predecessor = l.isin /\ s.successor = n.isin /\ s.changedOn = n.listed
  BY LinkOf
<1>2. ASSUME NEW d \in TradedOn(s.predecessor) PROVE d < s.changedOn
  <2>1. PICK b \in bars : b.line.isin = l.isin /\ b.day = d
    BY <1>1, <1>2 DEF TradedOn
  <2>2. d <= l.delisted /\ l.delisted \in Days /\ d \in Nat
    BY <1>1, <2>1, TakenTradesNoMore, BarFields
  <2>3. n.listed \in l.delisted + 1 .. l.delisted + SuccessionWindow
    BY <1>1 DEF TookOver
  <2>4. n.listed \in Int /\ l.delisted + 1 <= n.listed /\ l.delisted \in Nat
    BY <2>2, <2>3, IdentityAssumption DEF Days
  <2>5. QED
    BY ONLY <1>1, <2>2, <2>4
<1>3. s.changedOn \in TradedOn(s.successor)
  <2>1. PICK b \in bars : BeganWith(n, b)
    BY DerivedFromBars
  <2>2. QED
    BY <1>1, <2>1 DEF TradedOn, BeganWith
<1>4. QED
  BY <1>2, <1>3

\* The ISINs of a succession derived are lines' of the venue, under one identifier,
\* and the one followed has a bar before the day it changed.
LEMMA LinkIsOfLines ==
  ASSUME IdentityTypeOK, BarsHeld, NEW s \in DeriveSuccessions(DeriveListings)
  PROVE  \E a \in Lines : \E b \in Lines :
            /\ a.isin = s.predecessor /\ b.isin = s.successor /\ a.isin # b.isin
            /\ a.exchange = exchange /\ b.exchange = exchange
            /\ VenueIdentifier(a) = VenueIdentifier(b)
            /\ s.changedOn \in TradedOn(b.isin)
            /\ \E d \in TradedOn(a.isin) : d < s.changedOn
<1>1. PICK l \in DeriveListings, n \in DeriveListings :
         /\ Takers(l, DeriveListings) # {} /\ TookOver(n, l, n.listed, l.delisted)
         /\ s.predecessor = l.isin /\ s.successor = n.isin /\ s.changedOn = n.listed
  BY LinkOf
<1>2. PICK a \in Lines : NamedAs(l, a)
  BY DerivedFromBars
<1>3. PICK b \in Lines : NamedAs(n, b)
  BY DerivedFromBars
<1>4. PICK c \in bars : BeganWith(l, c)
  BY DerivedFromBars
<1>5. PICK e \in bars : BeganWith(n, e)
  BY DerivedFromBars
<1>6. c.day < s.changedOn
  <2>1. PICK h \in Absorbed : AsListed(l, h) /\ l.delisted = h.last
    BY <1>1, TakenIsLast
  <2>2. h \in Stint /\ h.first <= h.last
    BY StretchesAreSpans, HistoryOf DEF Absorbed
  <2>3. h.first \in Nat /\ h.last \in Nat /\ c.day = h.first
    BY <1>4, <2>1, <2>2, SpanNumbers DEF AsListed, BeganWith
  <2>4. n.listed \in h.last + 1 .. h.last + SuccessionWindow
    BY <1>1, <2>1 DEF TookOver
  <2>5. n.listed \in Int /\ h.last + 1 <= n.listed
    BY <2>3, <2>4, IdentityAssumption
  <2>6. QED
    BY ONLY <1>1, <2>2, <2>3, <2>5
<1>7. c.day \in TradedOn(a.isin) /\ s.changedOn \in TradedOn(b.isin)
  BY <1>1, <1>2, <1>3, <1>4, <1>5 DEF TradedOn, BeganWith, NamedAs
<1>8. a.isin = l.isin /\ b.isin = n.isin /\ a.exchange = exchange /\ b.exchange = exchange
  BY <1>2, <1>3, DerivedFromBars DEF NamedAs
<1>9. a.isin # b.isin /\ VenueIdentifier(a) = VenueIdentifier(b)
  BY <1>1, <1>2, <1>3 DEF TookOver, VenueIdentifier, NamedAs
<1>10. QED
  BY <1>1, <1>6, <1>7, <1>8, <1>9

\* So the links of one derivation form no cycle: the last day an ISIN traded is its place.
LEMMA LinksEnd ==
  ASSUME IdentityTypeOK, BarsHeld, OneCodeAnIsin
  PROVE  NoCycleIn(DeriveSuccessions(DeriveListings))
<1> DEFINE S == DeriveSuccessions(DeriveListings)
           Named == {line.isin : line \in Lines}
           place == [i \in Named |-> IF TradedOn(i) = {} THEN 0 ELSE Latest(TradedOn(i))]
<1>1. ASSUME NEW i PROVE TradedOn(i) \subseteq Days
  BY BarFields DEF TradedOn
<1>2. ASSUME NEW i, TradedOn(i) # {}
      PROVE  Latest(TradedOn(i)) \in TradedOn(i) /\ \A d \in TradedOn(i) : d <= Latest(TradedOn(i))
  BY <1>1, <1>2, LastOfDays
<1>3. LastDay \in Nat /\ Days \subseteq 0 .. LastDay /\ Days \subseteq Nat
  BY IdentityAssumption DEF Days
<1>4. place \in [Named -> 0 .. LastDay]
  <2>1. SUFFICES ASSUME NEW i \in Named PROVE place[i] \in 0 .. LastDay
    OBVIOUS
  <2>2. CASE TradedOn(i) = {}
    BY <1>3, <2>2
  <2>3. CASE TradedOn(i) # {}
    BY <1>1, <1>2, <1>3, <2>3
  <2>4. QED
    BY <2>2, <2>3
<1>5. ASSUME NEW s \in S PROVE place[s.predecessor] < place[s.successor]
  <2>1. PICK a \in Lines, b \in Lines :
          /\ a.isin = s.predecessor /\ b.isin = s.successor
          /\ s.changedOn \in TradedOn(b.isin) /\ TradedOn(a.isin) # {}
    BY <1>5, LinkIsOfLines
  <2>2. \A d \in TradedOn(a.isin) : d < s.changedOn
    BY <1>5, <2>1, LinksLeadOn
  <2>3. place[a.isin] = Latest(TradedOn(a.isin)) /\ place[b.isin] = Latest(TradedOn(b.isin))
    BY <2>1
  <2>4. Latest(TradedOn(a.isin)) < s.changedOn /\ s.changedOn <= Latest(TradedOn(b.isin))
    BY <1>2, <2>1, <2>2
  <2>5. /\ Latest(TradedOn(a.isin)) \in Nat /\ s.changedOn \in Nat
        /\ Latest(TradedOn(b.isin)) \in Nat
    BY <1>1, <1>2, <1>3, <2>1
  <2> HIDE DEF place
  <2>6. place[a.isin] < place[b.isin]
    BY ONLY <2>3, <2>4, <2>5
  <2>7. QED
    BY <2>1, <2>6
<1> HIDE DEF place
<1>6. QED
  BY <1>4, <1>5 DEF NoCycleIn

\* A bar is of a day whose file has its instrument, however it was corrected.
BarsFiled == \A b \in bars : b.day \in FiledOn(b.line.isin, exchange)

\* A link stored, of whichever derivation, was of two lines of one identifier, the one
\* followed in a file before the day the ISIN changed and the other in that day's.
LinkFiled(s) ==
  \E a \in Lines : \E b \in Lines :
    /\ a.isin = s.predecessor /\ b.isin = s.successor /\ a.isin # b.isin
    /\ a.exchange = exchange /\ b.exchange = exchange
    /\ VenueIdentifier(a) = VenueIdentifier(b)
    /\ s.changedOn \in FiledOn(b.isin, exchange)
    /\ \E d \in FiledOn(a.isin, exchange) : d < s.changedOn

LinksFiled == BarsFiled /\ \A s \in successions : LinkFiled(s)

\* It holds of every link a derivation makes.
LEMMA DerivedFiled ==
  ASSUME IdentityTypeOK, BarsHeld, BarsFiled, NEW s \in DeriveSuccessions(DeriveListings)
  PROVE  LinkFiled(s)
<1>1. \A i : TradedOn(i) \subseteq FiledOn(i, exchange)
  BY DEF TradedOn, BarsFiled
<1>2. QED
  BY <1>1, LinkIsOfLines DEF LinkFiled

\* No step breaks it.
LEMMA LinksFiledNext ==
  IdentityIInv /\ LinksFiled /\ [IdentityNext]_identityVars => LinksFiled'
<1>1. SUFFICES ASSUME IdentityIInv, LinksFiled, [IdentityNext]_identityVars PROVE LinksFiled'
  OBVIOUS
<1>2. IdentityTypeOK /\ BarsHeld /\ BarsFiled
  BY <1>1 DEF IdentityIInv, LinksFiled
<1>3. exchange' = exchange
  BY <1>1 DEF IdentityNext, DeriveIdentity, RefuseIdentity, StoreDay, CorrectDay, identityVars
<1>4. BarsFiled'
  <2>1. CASE bars' = bars
    BY <1>2, <1>3, <2>1 DEF BarsFiled
  <2>2. ASSUME NEW d \in Days, StoreDay(d) PROVE BarsFiled'
    <3>1. PICK file \in Files(d) : bars' = bars \union {[line |-> l, day |-> d] : l \in file}
      BY <2>2 DEF StoreDay
    <3>2. \A l \in file : d \in FiledOn(l.isin, exchange)
      BY DEF Files, FiledOn
    <3>3. QED
      BY <1>2, <1>3, <3>1, <3>2 DEF BarsFiled
  <2>3. ASSUME NEW b \in bars, CorrectDay(b) PROVE BarsFiled'
    <3>1. PICK line \in Lines : /\ line.isin = b.line.isin
                                /\ bars' = (bars \ {b}) \union {[b EXCEPT !.line = line]}
      BY <2>3 DEF CorrectDay
    <3>2. [b EXCEPT !.line = line].line = line /\ [b EXCEPT !.line = line].day = b.day
      BY <1>2, BarFields
    <3>3. QED
      BY <1>2, <1>3, <3>1, <3>2 DEF BarsFiled
  <2>4. QED
    BY <1>1, <2>1, <2>2, <2>3 DEF IdentityNext, DeriveIdentity, RefuseIdentity, identityVars
<1>5. \A s \in successions' : LinkFiled(s)
  <2>1. CASE successions' = successions
    BY <1>1, <2>1 DEF LinksFiled
  <2>2. CASE DeriveIdentity
    <3>1. successions' = Linked(successions, DeriveSuccessions(DeriveListings))
      BY <2>2 DEF DeriveIdentity
    <3>2. QED
      BY <1>1, <1>2, <3>1, DerivedFiled DEF Linked, LinksFiled
  <2>3. QED
    BY <1>1, <2>1, <2>2 DEF IdentityNext, RefuseIdentity, StoreDay, CorrectDay, identityVars
<1>6. QED
  BY <1>3, <1>4, <1>5 DEF LinksFiled, LinkFiled

\* Where one of two ISINs of an identifier leaves the files before the other comes, the
\* last day it may be filed under is its place.
LEMMA FiledLinksEnd ==
  ASSUME IdentityTypeOK, LinksFiled, OneAfterAnother
  PROVE  NoCycleIn(successions)
<1> DEFINE Named == {line.isin : line \in Lines}
           On(i) == FiledOn(i, exchange)
           place == [i \in Named |-> IF On(i) = {} THEN 0 ELSE Latest(On(i))]
<1>1. \A i : On(i) \subseteq Days
  BY DEF FiledOn
<1>2. ASSUME NEW i, On(i) # {}
      PROVE  Latest(On(i)) \in On(i) /\ \A d \in On(i) : d <= Latest(On(i))
  BY <1>1, <1>2, LastOfDays
<1>3. LastDay \in Nat /\ Days \subseteq 0 .. LastDay /\ Days \subseteq Nat
  BY IdentityAssumption DEF Days
<1>4. place \in [Named -> 0 .. LastDay]
  <2>1. SUFFICES ASSUME NEW i \in Named PROVE place[i] \in 0 .. LastDay
    OBVIOUS
  <2>2. CASE On(i) = {}
    BY <1>3, <2>2
  <2>3. CASE On(i) # {}
    BY <1>1, <1>2, <1>3, <2>3
  <2>4. QED
    BY <2>2, <2>3
<1>5. ASSUME NEW s \in successions PROVE place[s.predecessor] < place[s.successor]
  <2>1. PICK a \in Lines, b \in Lines :
          /\ a.isin = s.predecessor /\ b.isin = s.successor /\ a.isin # b.isin
          /\ a.exchange = exchange /\ b.exchange = exchange
          /\ VenueIdentifier(a) = VenueIdentifier(b)
          /\ s.changedOn \in On(b.isin)
          /\ \E d \in On(a.isin) : d < s.changedOn
    BY <1>5 DEF LinksFiled, LinkFiled
  <2>2. PICK d \in On(a.isin) : d < s.changedOn
    BY <2>1
  <2>3. \/ \A x \in On(a.isin) : \A y \in On(b.isin) : x < y
        \/ \A x \in On(a.isin) : \A y \in On(b.isin) : y < x
    BY <2>1, Zenon DEF OneAfterAnother
  <2>4. d \in Nat /\ s.changedOn \in Nat
    BY <1>1, <1>3, <2>1, <2>2
  <2>5. ~ (s.changedOn < d)
    BY ONLY <2>2, <2>4
  <2>6. \A x \in On(a.isin) : \A y \in On(b.isin) : x < y
    BY <2>1, <2>2, <2>3, <2>5
  <2>7. place[a.isin] = Latest(On(a.isin)) /\ place[b.isin] = Latest(On(b.isin))
    BY <2>1, <2>2
  <2>8. Latest(On(a.isin)) \in On(a.isin) /\ Latest(On(b.isin)) \in On(b.isin)
    BY <1>2, <2>1, <2>2
  <2>9. Latest(On(a.isin)) < Latest(On(b.isin))
    BY <2>6, <2>8
  <2> HIDE DEF place, On
  <2>10. QED
    BY <2>1, <2>7, <2>9
<1> HIDE DEF place
<1>6. QED
  BY <1>4, <1>5 DEF NoCycleIn

\* Whatever days are stored and corrected, each succession derived leads from an ISIN
\* that trades no more to one that began to trade the day it changed, where the venue
\* knows an instrument by one code.
THEOREM SuccessionsLeadOnward == IdentitySpec => []SuccessionsLeadOn
<1>1. IdentityIInv => SuccessionsLeadOn
  BY LinksLeadOn DEF IdentityIInv, SuccessionsLeadOn
<1>2. QED
  BY <1>1, IdentityInductive, PTL

\* So those of one derivation form no cycle, and `isins_now` walks them to one end.
THEOREM DerivedLinksNeverCycle == IdentitySpec => []DerivedLinksEnd
<1>1. IdentityIInv => DerivedLinksEnd
  BY LinksEnd DEF IdentityIInv, DerivedLinksEnd
<1>2. QED
  BY <1>1, IdentityInductive, PTL

\* Those stored, which no derivation retires, form none either, whatever the order
\* days were stored in, where no identifier is given on between ISINs that trade on.
THEOREM StoredLinksNeverCycle == IdentitySpec => []StoredLinksEnd
<1>1. IdentityInit => LinksFiled
  BY DEF IdentityInit, LinksFiled, BarsFiled
<1>2. IdentityIInv /\ LinksFiled => StoredLinksEnd
  BY FiledLinksEnd DEF IdentityIInv, StoredLinksEnd
<1>3. QED
  BY <1>1, <1>2, IdentityInductive, LinksFiledNext, PTL DEF IdentitySpec

-----------------------------------------------------------------------------
(* Features, for any days, months, windows and bars.                       *)
(*                                                                         *)
(* The argument: a pass that has come by some days holds the documented    *)
(* venue of each, its state is that of the month it stands in, the days of *)
(* its window behind it, and what it reads is frozen meanwhile             *)
(* (PassInOrder).  A sum over days is taken by a recursion, and two sums   *)
(* are compared along it by the first day they part on.  Between passes a  *)
(* row stands for its day (RowsStand): it is what a computation would      *)
(* store again, unless something it reads was learned since.               *)
(*                                                                         *)
(* Sums of turnover over days.                                             *)

\* An amount to each day, and what a day adds to the sum over some days.
Amounts == [TradeDays -> Nat]
Part(T, S, n) == IF n \in S THEN T[n] ELSE 0

\* The amounts up to each day.
SumsUp(f, T, S) ==
  /\ f \in [0 .. LastTradeDay -> Nat]
  /\ f[0] = 0 /\ \A n \in TradeDays : f[n] = f[n - 1] + Part(T, S, n)

\* Trading days are numbers from 1 on.
LEMMA TradeDaysAreNumbers ==
  /\ LastTradeDay \in Nat /\ LastTradeDay > 0
  /\ \A d \in TradeDays : d \in Nat /\ d \in Int /\ 1 <= d /\ d <= LastTradeDay
  /\ \A d \in TradeDays : d - 1 \in 0 .. LastTradeDay /\ d \in 0 .. LastTradeDay
<1>1. LastTradeDay \in Nat /\ LastTradeDay > 0
  BY FeaturesAssumption
<1>2. QED
  BY <1>1 DEF TradeDays

\* Two functions that agree at 0, and at a day where they did the day before, agree.
LEMMA AgreeAllAlong ==
  ASSUME NEW f, NEW g, f[0] = g[0],
         \A n \in TradeDays : f[n - 1] = g[n - 1] => f[n] = g[n]
  PROVE  \A n \in 0 .. LastTradeDay : f[n] = g[n]
<1> DEFINE Apart == {n \in 0 .. LastTradeDay : f[n] # g[n]}
<1>1. SUFFICES ASSUME Apart # {} PROVE FALSE
  OBVIOUS
<1>2. Apart \subseteq Nat
  BY TradeDaysAreNumbers
<1>3. PICK n \in Apart : \A m \in Apart : n <= m
  BY <1>1, <1>2, LeastNatural
<1>4. n \in TradeDays /\ n - 1 \in 0 .. LastTradeDay /\ ~ (n <= n - 1)
  <2>1. n \in 0 .. LastTradeDay /\ n # 0 /\ LastTradeDay \in Nat
    BY TradeDaysAreNumbers
  <2>2. QED
    BY ONLY <2>1 DEF TradeDays
<1>5. f[n - 1] = g[n - 1]
  BY <1>3, <1>4
<1>6. QED
  BY <1>4, <1>5

\* A total is where the amounts added day by day arrive.
LEMMA TotalSumsUp ==
  ASSUME NEW T \in Amounts, NEW S
  PROVE  \E f : SumsUp(f, T, S) /\ TotalOn(T, S) = f[LastTradeDay]
<1> DEFINE G == [n \in 1 .. LastTradeDay |-> [x \in Nat |-> x + Part(T, S, n)]]
           Runs(f) == f = [n \in 0 .. LastTradeDay |->
                            IF n = 0 THEN 0 ELSE f[n - 1] + (IF n \in S THEN T[n] ELSE 0)]
<1>1. \A n \in TradeDays : Part(T, S, n) \in Nat
  BY DEF Part, Amounts
<1>2. \A n \in 1 .. LastTradeDay, x \in Nat :
        G[n][x] = x + Part(T, S, n) /\ x + Part(T, S, n) \in Nat
  BY <1>1 DEF TradeDays
<1>3. G \in [1 .. LastTradeDay -> [Nat -> Nat]]
  BY <1>2
<1> HIDE DEF G
<1>4. PICK f \in [0 .. LastTradeDay -> Nat] : Recurs(f, 0, G, LastTradeDay)
  BY ONLY <1>3, 0 \in Nat, TradeDaysAreNumbers, RecursionExists
<1>5. \A n \in TradeDays : f[n] = f[n - 1] + Part(T, S, n) /\ f[n - 1] \in Nat
  <2>1. \A n \in TradeDays : f[n - 1] \in Nat
    BY TradeDaysAreNumbers
  <2>2. QED
    BY <1>2, <1>4, <2>1 DEF Recurs, TradeDays
<1>6. Runs(f)
  <2>1. f[0] = 0
    BY <1>4 DEF Recurs
  <2>2. \A n \in 0 .. LastTradeDay : n = 0 \/ n \in TradeDays
    BY TradeDaysAreNumbers DEF TradeDays
  <2>3. QED
    BY <1>5, <2>1, <2>2 DEF Part
<1> DEFINE upTo == CHOOSE g : Runs(g)
<1>7. Runs(upTo)
  BY <1>6, Zenon
<1>8. TotalOn(T, S) = upTo[LastTradeDay]
  BY DEF TotalOn
<1> HIDE DEF upTo
<1>9. upTo[0] = 0 /\ \A n \in TradeDays : upTo[n] = upTo[n - 1] + Part(T, S, n)
  <2>1. \A n \in 0 .. LastTradeDay :
           upTo[n] = IF n = 0 THEN 0 ELSE upTo[n - 1] + (IF n \in S THEN T[n] ELSE 0)
    BY <1>7
  <2>2. 0 \in 0 .. LastTradeDay /\ \A n \in TradeDays : n \in 0 .. LastTradeDay /\ n # 0
    BY TradeDaysAreNumbers
  <2>3. QED
    BY <2>1, <2>2, Zenon DEF Part
<1>10. \A n \in 0 .. LastTradeDay : upTo[n] = f[n]
  <2>1. f[0] = 0
    BY <1>4 DEF Recurs
  <2>2. upTo[0] = f[0] /\ \A n \in TradeDays : upTo[n - 1] = f[n - 1] => upTo[n] = f[n]
    BY <1>5, <1>9, <2>1, Zenon
  <2>3. QED
    BY <2>2, AgreeAllAlong, Zenon
<1>11. upTo \in [0 .. LastTradeDay -> Nat]
  BY <1>7, <1>10
<1>12. QED
  BY <1>8, <1>9, <1>11 DEF SumsUp

\* Sums of amounts that agree on their days are equal.
LEMMA TotalsAgree ==
  ASSUME NEW T \in Amounts, NEW U \in Amounts, NEW S, NEW R,
         \A n \in TradeDays : Part(T, S, n) = Part(U, R, n)
  PROVE  TotalOn(T, S) = TotalOn(U, R)
<1>1. PICK f : SumsUp(f, T, S) /\ TotalOn(T, S) = f[LastTradeDay]
  BY TotalSumsUp
<1>2. PICK g : SumsUp(g, U, R) /\ TotalOn(U, R) = g[LastTradeDay]
  BY TotalSumsUp
<1>3. \A n \in 0 .. LastTradeDay : f[n] = g[n]
  <2>1. f[0] = g[0] /\ \A n \in TradeDays : f[n - 1] = g[n - 1] => f[n] = g[n]
    BY <1>1, <1>2, Zenon DEF SumsUp
  <2>2. QED
    BY <2>1, AgreeAllAlong, Zenon
<1>4. QED
  BY <1>1, <1>2, <1>3, TradeDaysAreNumbers

\* A day added adds its amount.
LEMMA TotalAdds ==
  ASSUME NEW T \in Amounts, NEW S, NEW d \in TradeDays, d \notin S
  PROVE  TotalOn(T, S \union {d}) = TotalOn(T, S) + T[d]
<1>1. PICK f : SumsUp(f, T, S) /\ TotalOn(T, S) = f[LastTradeDay]
  BY TotalSumsUp
<1>2. PICK g : SumsUp(g, T, S \union {d}) /\ TotalOn(T, S \union {d}) = g[LastTradeDay]
  BY TotalSumsUp
<1> DEFINE h == [n \in 0 .. LastTradeDay |-> f[n] + (IF d <= n THEN T[d] ELSE 0)]
<1>3. T[d] \in Nat /\ d \in Nat /\ 1 <= d /\ d <= LastTradeDay
  BY TradeDaysAreNumbers DEF Amounts
<1>4. \A n \in 0 .. LastTradeDay : f[n] \in Nat /\ g[n] \in Nat
  BY <1>1, <1>2 DEF SumsUp
<1>5. g[0] = h[0]
  <2>1. h[0] = f[0] + 0 /\ f[0] = 0 /\ g[0] = 0
    BY <1>1, <1>2, <1>3, TradeDaysAreNumbers DEF SumsUp
  <2>2. QED
    BY ONLY <2>1
<1>6. ASSUME NEW n \in TradeDays, g[n - 1] = h[n - 1]
      PROVE  g[n] = h[n]
  <2>1. /\ n \in Nat /\ n - 1 \in 0 .. LastTradeDay /\ n \in 0 .. LastTradeDay
        /\ f[n - 1] \in Nat /\ f[n] \in Nat /\ g[n - 1] \in Nat
    BY <1>4, TradeDaysAreNumbers
  <2>2. /\ h[n] = f[n] + (IF d <= n THEN T[d] ELSE 0)
        /\ h[n - 1] = f[n - 1] + (IF d <= n - 1 THEN T[d] ELSE 0)
    BY <2>1
  <2>3. /\ f[n] = f[n - 1] + Part(T, S, n)
        /\ g[n] = g[n - 1] + Part(T, S \union {d}, n)
    BY <1>1, <1>2 DEF SumsUp
  <2>4. CASE n = d
    <3>1. Part(T, S, n) = 0 /\ Part(T, S \union {d}, n) = T[d]
      BY <2>4 DEF Part
    <3> HIDE DEF h
    <3>2. QED
      BY ONLY <1>3, <1>6, <2>1, <2>2, <2>3, <2>4, <3>1
  <2>5. CASE n # d
    <3>1. Part(T, S, n) = Part(T, S \union {d}, n) /\ Part(T, S, n) \in Nat
      BY <2>5 DEF Part, Amounts
    <3>2. d <= n <=> d <= n - 1
      BY ONLY <1>3, <2>1, <2>5
    <3> HIDE DEF h
    <3>3. QED
      BY ONLY <1>3, <1>6, <2>1, <2>2, <2>3, <3>1, <3>2
  <2>6. QED
    BY <2>4, <2>5
<1>7. \A n \in 0 .. LastTradeDay : g[n] = h[n]
  <2> HIDE DEF h
  <2>1. QED
    BY <1>5, <1>6, AgreeAllAlong
<1>8. h[LastTradeDay] = f[LastTradeDay] + T[d]
  BY <1>3, TradeDaysAreNumbers
<1>9. QED
  BY <1>1, <1>2, <1>7, <1>8, TradeDaysAreNumbers

\* Days with no amount sum to none.
LEMMA TotalOfNone ==
  ASSUME NEW T \in Amounts, NEW S, \A n \in TradeDays : Part(T, S, n) = 0
  PROVE  TotalOn(T, S) = 0
<1>1. PICK f : SumsUp(f, T, S) /\ TotalOn(T, S) = f[LastTradeDay]
  BY TotalSumsUp
<1> DEFINE z == [n \in 0 .. LastTradeDay |-> 0]
<1>2. f[0] = z[0]
  BY <1>1, TradeDaysAreNumbers DEF SumsUp
<1>3. ASSUME NEW n \in TradeDays, f[n - 1] = z[n - 1]
      PROVE  f[n] = z[n]
  BY <1>1, <1>3, TradeDaysAreNumbers DEF SumsUp
<1>4. \A n \in 0 .. LastTradeDay : f[n] = z[n]
  <2> HIDE DEF z
  <2>1. QED
    BY <1>2, <1>3, AgreeAllAlong
<1>5. QED
  BY <1>1, <1>4, TradeDaysAreNumbers

-----------------------------------------------------------------------------
(* Months.                                                                 *)

\* A month begins with its first day, and the days before it are of earlier months.
LEMMA Months ==
  ASSUME NEW d \in TradeDays, NEW e \in TradeDays, e <= d
  PROVE  /\ MonthStart(d) \in TradeDays /\ MonthStart(d) <= d
         /\ MonthStart(e) <= MonthStart(d)
         /\ MonthStart(e) # MonthStart(d) => e < MonthStart(d)
<1> DEFINE q(x) == (x - 1) \div MonthLength
<1>1. MonthLength \in Nat /\ MonthLength > 0
  BY FeaturesAssumption
<1>2. d \in Nat /\ e \in Nat /\ 1 <= d /\ 1 <= e /\ LastTradeDay \in Nat /\ d <= LastTradeDay
  BY TradeDaysAreNumbers
<1>3. \A x \in Nat : 1 <= x =>
        /\ q(x) \in Nat
        /\ q(x) * MonthLength <= x - 1 /\ x - 1 < q(x) * MonthLength + MonthLength
  BY ONLY <1>1, SMTT(30)
<1>4. MonthStart(d) = q(d) * MonthLength + 1 /\ MonthStart(e) = q(e) * MonthLength + 1
  BY DEF MonthStart
<1>5. \A x, y \in Nat : x < y => x * MonthLength + MonthLength <= y * MonthLength
  BY ONLY <1>1, SMTT(30)
<1>6. \A x \in Nat : x * MonthLength \in Nat
  BY ONLY <1>1, SMTT(30)
<1> HIDE DEF q
<1>7. q(d) \in Nat /\ q(e) \in Nat
  BY <1>2, <1>3
<1> DEFINE a == q(d) * MonthLength
           b == q(e) * MonthLength
<1>8. a \in Nat /\ b \in Nat
  BY <1>6, <1>7
<1>9. a <= d - 1 /\ d - 1 < a + MonthLength /\ b <= e - 1 /\ e - 1 < b + MonthLength
  BY <1>2, <1>3
<1>10. /\ q(d) < q(e) => a + MonthLength <= b
       /\ q(e) < q(d) => b + MonthLength <= a
  BY <1>5, <1>7
<1>11. q(d) = q(e) => a = b
  OBVIOUS
<1>12. MonthStart(d) = a + 1 /\ MonthStart(e) = b + 1
  BY <1>4
<1> HIDE DEF a, b
<1>13. ~ (q(d) < q(e))
  BY ONLY <1>1, <1>2, <1>7, <1>8, <1>9, <1>10, e <= d
<1>14. /\ MonthStart(d) \in 1 .. LastTradeDay /\ MonthStart(d) <= d
       /\ MonthStart(e) <= MonthStart(d)
       /\ MonthStart(e) # MonthStart(d) => e < MonthStart(d)
  BY ONLY <1>1, <1>2, <1>7, <1>8, <1>9, <1>10, <1>11, <1>12, <1>13, e <= d
<1>15. QED
  BY <1>14 DEF TradeDays

-----------------------------------------------------------------------------
(* The venue held day by day.                                              *)

\* The days with a bar, and what each venue turned over on them.
AnyTraded(d) == \E v \in FeatureVenues : Traded(v, d)
Amount(v) == [d \in TradeDays |-> Turnover(v, d)]

\* What the documented venue of a day is read from.
MonthWindow(month) == {e \in TradeDays : month - WindowDays <= e /\ e < month}
FirstMonth(month) == ~\E v \in FeatureVenues, e \in 1 .. month - 1 : Traded(v, e)
NoTurnover(month) == \A v \in FeatureVenues : SumTurnover(v, MonthWindow(month)) = 0
ByItself(month) == FirstMonth(month) \/ NoTurnover(month)
Documented(d) ==
  LET span == IF ByItself(MonthStart(d)) THEN MonthStart(d) .. d ELSE MonthWindow(MonthStart(d))
  IN  Larger(SumTurnover("BSE", span), SumTurnover("NSE", span))

\* The days a pass has come by.
GoneBy(n) == {e \in TradeDays : e < n /\ AnyTraded(e)}

PassStates == [started : BOOLEAN, running : BOOLEAN, month : Nat, bse : Nat, nse : Nat,
           venue : FeatureVenues, recent : SUBSET TradeDays]

\* The state of a month, the days before n counted and those of a set gone by.
InMonth(state, month, days, n) ==
  /\ state.started /\ state.month = month
  /\ state.recent = {e \in days : month - WindowDays <= e}
  /\ state.running <=> ByItself(month)
  /\ state.running => /\ state.bse = SumTurnover("BSE", month .. n - 1)
                      /\ state.nse = SumTurnover("NSE", month .. n - 1)

HeldRightly(state) ==
  state.venue = IF state.running THEN Larger(state.bse, state.nse)
                ELSE Larger(SumTurnover("BSE", MonthWindow(state.month)),
                            SumTurnover("NSE", MonthWindow(state.month)))

PassInOrder ==
  /\ pass = [day |-> pass.day, state |-> pass.state, designated |-> pass.designated]
  /\ pass.day \in 1 .. LastTradeDay + 1 /\ pass.state \in PassStates
  /\ pass.designated = [d \in GoneBy(pass.day) |-> Documented(d)]
  /\ GoneBy(pass.day) = {} => pass.state = NotStarted
  /\ \A last \in GoneBy(pass.day) :
        (\A e \in GoneBy(pass.day) : e <= last)
          => InMonth(pass.state, MonthStart(last), GoneBy(pass.day), pass.day) /\ HeldRightly(pass.state)

Passing == IF Computing THEN PassInOrder ELSE pass = NoPass

\* A venue's amounts, of which an untraded day has none.
LEMMA AmountsTyped ==
  ASSUME FeaturesTypeOK, NEW v \in FeatureVenues
  PROVE  /\ Amount(v) \in Amounts
         /\ \A d \in TradeDays : /\ Amount(v)[d] = Turnover(v, d) /\ Turnover(v, d) \in Nat
                                 /\ ~ Traded(v, d) => Turnover(v, d) = 0
         /\ \A S : SumTurnover(v, S) = TotalOn(Amount(v), S) /\ SumTurnover(v, S) \in Nat
<1>1. \A d \in TradeDays : Turnover(v, d) \in Nat /\ (~ Traded(v, d) => Turnover(v, d) = 0)
  BY DEF FeaturesTypeOK, Turnover
<1>2. Amount(v) \in Amounts
  BY <1>1 DEF Amount, Amounts
<1>3. ASSUME NEW S
      PROVE  SumTurnover(v, S) = TotalOn(Amount(v), S) /\ SumTurnover(v, S) \in Nat
  <2>1. SumTurnover(v, S) = TotalOn(Amount(v), S)
    BY Zenon DEF SumTurnover, Amount
  <2>2. PICK f : SumsUp(f, Amount(v), S) /\ TotalOn(Amount(v), S) = f[LastTradeDay]
    BY <1>2, TotalSumsUp
  <2>3. f[LastTradeDay] \in Nat
    BY <2>2, TradeDaysAreNumbers DEF SumsUp
  <2>4. QED
    BY <2>1, <2>2, <2>3
<1>4. QED
  BY <1>1, <1>2, <1>3 DEF Amount

\* Sums over sets that differ by untraded days are equal.
LEMMA UntradedCountsNothing ==
  ASSUME FeaturesTypeOK, NEW v \in FeatureVenues, NEW S, NEW R,
         \A n \in TradeDays : AnyTraded(n) => (n \in S <=> n \in R)
  PROVE  SumTurnover(v, S) = SumTurnover(v, R)
<1>1. ASSUME NEW n \in TradeDays
      PROVE  Part(Amount(v), S, n) = Part(Amount(v), R, n)
  <2>1. CASE AnyTraded(n)
    BY <2>1 DEF Part
  <2>2. CASE ~ AnyTraded(n)
    <3>1. ~ Traded(v, n)
      BY <2>2 DEF AnyTraded
    <3>2. Amount(v)[n] = 0
      BY <3>1, AmountsTyped, Zenon
    <3>3. QED
      BY <3>2 DEF Part
  <2>3. QED
    BY <2>1, <2>2
<1>2. TotalOn(Amount(v), S) = TotalOn(Amount(v), R)
  BY <1>1, AmountsTyped, TotalsAgree
<1>3. QED
  BY <1>2, AmountsTyped

\* A day's turnover joins the sum of the days of its month before it.
LEMMA MonthAdds ==
  ASSUME FeaturesTypeOK, NEW v \in FeatureVenues, NEW d \in TradeDays, NEW month \in TradeDays,
         month <= d
  PROVE  SumTurnover(v, month .. d) = SumTurnover(v, month .. d - 1) + Turnover(v, d)
<1> DEFINE S == month .. d - 1
<1>1. d \in Nat /\ month \in Nat /\ 1 <= month
  BY TradeDaysAreNumbers
<1>2. d \notin S /\ month .. d = S \union {d}
  BY ONLY <1>1, month <= d
<1>3. Amount(v) \in Amounts /\ Amount(v)[d] = Turnover(v, d)
  BY AmountsTyped, Zenon
<1> HIDE DEF S
<1>4. TotalOn(Amount(v), S \union {d}) = TotalOn(Amount(v), S) + Amount(v)[d]
  BY <1>2, <1>3, TotalAdds
<1>5. SumTurnover(v, S \union {d}) = SumTurnover(v, S) + Turnover(v, d)
  BY <1>3, <1>4, AmountsTyped
<1>6. QED
  BY <1>2, <1>5 DEF S

\* Of the days gone by one is the last.
LEMMA LastBehind ==
  ASSUME NEW n, GoneBy(n) # {}
  PROVE  \E last \in GoneBy(n) : \A e \in GoneBy(n) : e <= last
<1>1. GoneBy(n) \subseteq 0 .. LastTradeDay /\ LastTradeDay \in Nat
  BY TradeDaysAreNumbers DEF GoneBy
<1>2. QED
  BY <1>1, GreatestUpTo

\* A sum over days none of which was traded is none.
LEMMA NothingTraded ==
  ASSUME FeaturesTypeOK, NEW v \in FeatureVenues, NEW S,
         \A n \in TradeDays : AnyTraded(n) => n \notin S
  PROVE  SumTurnover(v, S) = 0
<1>1. SumTurnover(v, S) = SumTurnover(v, {})
  BY UntradedCountsNothing
<1>2. TotalOn(Amount(v), {}) = 0
  BY AmountsTyped, TotalOfNone DEF Part
<1>3. QED
  BY <1>1, <1>2, AmountsTyped

\* The state of a month has the type of one.
LEMMA TurnMonthFields ==
  ASSUME FeaturesTypeOK, NEW state \in PassStates, NEW month \in Nat
  PROVE  LET t == TurnMonth(state, month)
             recent == {e \in state.recent : e >= month - WindowDays}
         IN  /\ t \in PassStates /\ t.started = state.started /\ t.month = month
             /\ t.recent = recent /\ t.bse = 0 /\ t.nse = 0
             /\ t.running = (SumTurnover("BSE", recent) = 0 /\ SumTurnover("NSE", recent) = 0)
             /\ t.venue = Larger(SumTurnover("BSE", recent), SumTurnover("NSE", recent))
<1> DEFINE recent == {e \in state.recent : e >= month - WindowDays}
           running == SumTurnover("BSE", recent) = 0 /\ SumTurnover("NSE", recent) = 0
           leading == Larger(SumTurnover("BSE", recent), SumTurnover("NSE", recent))
           t == TurnMonth(state, month)
<1>1. t = [state EXCEPT !.month = month, !.recent = recent, !.running = running,
                        !.bse = 0, !.nse = 0, !.venue = leading]
  BY Zenon DEF TurnMonth
<1>2. recent \in SUBSET TradeDays /\ running \in BOOLEAN /\ leading \in FeatureVenues
  BY DEF PassStates, Larger, FeatureVenues
<1>3. state = [started |-> state.started, running |-> state.running, month |-> state.month,
               bse |-> state.bse, nse |-> state.nse, venue |-> state.venue,
               recent |-> state.recent] /\ state.started \in BOOLEAN
  BY DEF PassStates
<1> HIDE DEF recent, running, leading, t
<1>4. t = [started |-> state.started, running |-> running, month |-> month, bse |-> 0,
           nse |-> 0, venue |-> leading, recent |-> recent]
  BY ONLY <1>1, <1>3
<1>5. t \in PassStates
  BY <1>2, <1>3, <1>4 DEF PassStates
<1>6. QED
  BY <1>4, <1>5 DEF recent, running, leading, t

\* Before its first bar a pass stands as it did at the start.
LEMMA StartedBehind ==
  ASSUME PassInOrder
  PROVE  pass.state.started <=> GoneBy(pass.day) # {}
<1>1. CASE GoneBy(pass.day) = {}
  <2>1. pass.state = NotStarted
    BY <1>1, Zenon DEF PassInOrder
  <2>2. pass.state.started = FALSE
    BY <2>1 DEF NotStarted
  <2>3. QED
    BY <1>1, <2>2
<1>2. CASE GoneBy(pass.day) # {}
  <2>1. PICK last \in GoneBy(pass.day) : \A e \in GoneBy(pass.day) : e <= last
    BY <1>2, LastBehind
  <2>2. pass.state.started
    BY <2>1 DEF PassInOrder, InMonth
  <2>3. QED
    BY <1>2, <2>2 DEF PassInOrder, PassStates
<1>3. QED
  BY <1>1, <1>2

\* The state as it stands in the month of a day, the days before it counted.
LEMMA TurnedRightly ==
  ASSUME FeaturesTypeOK, PassInOrder, NEW d \in TradeDays, d = pass.day, AnyTraded(d)
  PROVE  LET t == Turned(pass.state, MonthStart(d))
         IN  /\ t \in PassStates /\ InMonth(t, MonthStart(d), GoneBy(d), d)
             /\ ~ t.running => HeldRightly(t)
<1> DEFINE state == pass.state
           month == MonthStart(d)
           t == Turned(state, month)
<1>1. d \in Nat /\ month \in TradeDays /\ month \in Nat /\ month <= d /\ d <= LastTradeDay
      /\ 1 <= month /\ LastTradeDay \in Nat /\ WindowDays \in Nat
  <2>1. d <= d
    BY TradeDaysAreNumbers
  <2>2. month \in TradeDays /\ month <= d
    BY <2>1, Months
  <2>3. QED
    BY <2>2, TradeDaysAreNumbers, FeaturesAssumption
<1>2. state \in PassStates
  BY DEF PassInOrder
<1>3. \A n \in TradeDays : AnyTraded(n) /\ n < d <=> n \in GoneBy(d)
  BY DEF GoneBy
<1>4. \A n \in TradeDays : n \in Nat /\ 1 <= n
  BY TradeDaysAreNumbers
<1>5. CASE ~ state.started
  <2>1. GoneBy(d) = {} /\ state = NotStarted
    BY <1>5, StartedBehind DEF PassInOrder
  <2>2. t = [started |-> TRUE, running |-> TRUE, month |-> month, bse |-> 0, nse |-> 0,
             venue |-> "BSE", recent |-> {}]
    <3>1. t = [state EXCEPT !.started = TRUE, !.running = TRUE, !.month = month]
      BY <1>5, Zenon DEF Turned
    <3>2. t = [NotStarted EXCEPT !.started = TRUE, !.running = TRUE, !.month = month]
      BY <2>1, <3>1, Zenon
    <3> HIDE DEF t, month, state
    <3>3. QED
      BY ONLY <3>2 DEF NotStarted
  <2>3. FirstMonth(month)
    <3>1. SUFFICES ASSUME NEW v \in FeatureVenues, NEW e \in 1 .. month - 1, Traded(v, e)
                   PROVE  FALSE
      BY DEF FirstMonth
    <3>2. e \in TradeDays /\ e < d
      BY <1>1 DEF TradeDays
    <3>3. QED
      BY <1>3, <2>1, <3>1, <3>2 DEF AnyTraded
  <2>4. ASSUME NEW v \in FeatureVenues
        PROVE  SumTurnover(v, month .. d - 1) = 0
    <3>1. ASSUME NEW n \in TradeDays, AnyTraded(n), n \in month .. d - 1
          PROVE  FALSE
      <4>1. n < d
        BY <1>1, <1>4, <3>1
      <4>2. QED
        BY <1>3, <2>1, <3>1, <4>1
    <3>2. QED
      BY <3>1, NothingTraded
  <2>5. t \in PassStates
    BY <1>1, <2>2 DEF PassStates, FeatureVenues
  <2>6. InMonth(t, month, GoneBy(d), d)
    <3> HIDE DEF t, month, state
    <3>1. /\ t.started = TRUE /\ t.month = month /\ t.recent = {} /\ t.running = TRUE
          /\ t.bse = 0 /\ t.nse = 0
      BY ONLY <2>2
    <3>2. "BSE" \in FeatureVenues /\ "NSE" \in FeatureVenues /\ ByItself(month)
      BY <2>3 DEF FeatureVenues, ByItself
    <3>3. {e \in GoneBy(d) : month - WindowDays <= e} = {}
      BY <2>1
    <3>4. ByItself(month)
      BY <3>2
    <3>5. SumTurnover("BSE", month .. d - 1) = 0 /\ SumTurnover("NSE", month .. d - 1) = 0
      BY <2>4, <3>2
    <3>6. QED
      BY <3>1, <3>3, <3>4, <3>5 DEF InMonth
  <2>7. QED
    BY <2>2, <2>5, <2>6
<1>6. ASSUME state.started
      PROVE  \E last \in GoneBy(d) : /\ \A e \in GoneBy(d) : e <= last
                                     /\ InMonth(state, MonthStart(last), GoneBy(d), d)
                                     /\ HeldRightly(state)
  <2>1. PICK last \in GoneBy(d) : \A e \in GoneBy(d) : e <= last
    BY <1>6, StartedBehind, LastBehind
  <2>2. InMonth(state, MonthStart(last), GoneBy(d), d) /\ HeldRightly(state)
    BY <2>1 DEF PassInOrder
  <2>3. QED
    BY <2>1, <2>2
<1>7. CASE state.started /\ month = state.month
  <2>1. t = state
    BY <1>7 DEF Turned
  <2>2. PICK last \in GoneBy(d) : /\ InMonth(state, MonthStart(last), GoneBy(d), d)
                                  /\ HeldRightly(state)
    BY <1>6, <1>7
  <2>3. MonthStart(last) = month
    BY <1>7, <2>2 DEF InMonth
  <2>4. QED
    BY <1>2, <2>1, <2>2, <2>3
<1>8. CASE state.started /\ month # state.month
  <2>1. PICK last \in GoneBy(d) : /\ \A e \in GoneBy(d) : e <= last
                                  /\ InMonth(state, MonthStart(last), GoneBy(d), d)
    BY <1>6, <1>8
  <2>2. t = TurnMonth(state, month)
    BY <1>8 DEF Turned
  <2> DEFINE before == MonthStart(last)
             recent == {e \in state.recent : e >= month - WindowDays}
  <2>3. last \in TradeDays /\ last < d /\ AnyTraded(last)
    BY DEF GoneBy
  <2>4. before # month /\ state.month = before
    BY <1>8, <2>1 DEF InMonth
  <2>5. before <= month /\ last < month /\ before \in Nat /\ last \in Nat
    <3>1. last <= d /\ last \in Nat
      BY <1>1, <1>4, <2>3
    <3>2. before \in TradeDays
      BY <2>3, <3>1, Months
    <3>3. QED
      BY <1>4, <2>3, <2>4, <3>1, <3>2, Months
  <2>6. \A e \in GoneBy(d) : e \in TradeDays /\ e < month /\ AnyTraded(e)
    <3>1. SUFFICES ASSUME NEW e \in GoneBy(d) PROVE e \in TradeDays /\ e < month /\ AnyTraded(e)
      OBVIOUS
    <3>2. e <= last /\ e \in TradeDays /\ e \in Nat /\ AnyTraded(e)
      BY <1>4, <2>1 DEF GoneBy
    <3>3. e < month
      BY ONLY <1>1, <2>5, <3>2
    <3>4. QED
      BY <3>2, <3>3
  <2>7. recent = {e \in GoneBy(d) : month - WindowDays <= e}
    <3>1. state.recent = {e \in GoneBy(d) : before - WindowDays <= e}
      BY <2>1 DEF InMonth
    <3>2. \A e \in Nat : month - WindowDays <= e => before - WindowDays <= e
      BY ONLY <1>1, <2>5
    <3>3. \A e \in GoneBy(d) : e \in Nat
      BY <1>4, <2>6
    <3>4. QED
      BY <1>1, <3>1, <3>2, <3>3
  <2>8. ASSUME NEW v \in FeatureVenues
        PROVE  SumTurnover(v, recent) = SumTurnover(v, MonthWindow(month))
    <3>1. ASSUME NEW n \in TradeDays, AnyTraded(n)
          PROVE  n \in recent <=> n \in MonthWindow(month)
      <4>1. CASE n < d
        <5>1. n \in GoneBy(d) /\ n < month
          BY <1>3, <2>6, <3>1, <4>1
        <5>2. QED
          BY <2>7, <5>1 DEF MonthWindow
      <4>2. CASE ~ (n < d)
        <5>1. n \notin GoneBy(d) /\ ~ (n < month)
          BY <1>1, <1>4, <4>2 DEF GoneBy
        <5>2. QED
          BY <2>7, <5>1 DEF MonthWindow
      <4>3. QED
        BY <4>1, <4>2
    <3> HIDE DEF recent
    <3>2. QED
      BY <3>1, UntradedCountsNothing
  <2>9. ~ FirstMonth(month)
    <3>1. last \in 1 .. month - 1
      BY <1>1, <1>4, <2>3, <2>5
    <3>2. QED
      BY <2>3, <3>1 DEF FirstMonth, AnyTraded
  <2>10. ASSUME NEW v \in FeatureVenues
         PROVE  SumTurnover(v, month .. d - 1) = 0
    <3>1. ASSUME NEW n \in TradeDays, AnyTraded(n), n \in month .. d - 1
          PROVE  FALSE
      <4>1. n < d /\ ~ (n < month)
        BY <1>1, <1>4, <3>1
      <4>2. QED
        BY <1>3, <2>6, <3>1, <4>1
    <3>2. QED
      BY <3>1, NothingTraded
  <2>11. /\ t \in PassStates /\ t.started = state.started /\ t.month = month
         /\ t.recent = recent /\ t.bse = 0 /\ t.nse = 0
         /\ t.running = (SumTurnover("BSE", recent) = 0 /\ SumTurnover("NSE", recent) = 0)
         /\ t.venue = Larger(SumTurnover("BSE", recent), SumTurnover("NSE", recent))
    <3> DEFINE u == TurnMonth(state, month)
    <3>1. state \in PassStates /\ month \in Nat
      BY <1>1, <1>2
    <3>2. /\ u \in PassStates /\ u.started = state.started /\ u.month = month
          /\ u.recent = recent /\ u.bse = 0 /\ u.nse = 0
          /\ u.running = (SumTurnover("BSE", recent) = 0 /\ SumTurnover("NSE", recent) = 0)
          /\ u.venue = Larger(SumTurnover("BSE", recent), SumTurnover("NSE", recent))
      <4> HIDE DEF state, month
      <4>1. QED
        BY <3>1, TurnMonthFields
    <3>3. t = u
      BY <2>2
    <3> HIDE DEF t, u, recent, state, month
    <3>4. QED
      BY ONLY <3>2, <3>3
  <2> HIDE DEF recent, t, before
  <2>12. t.running <=> ByItself(month)
    BY <2>8, <2>9, <2>11 DEF ByItself, NoTurnover, FeatureVenues
  <2>13. InMonth(t, month, GoneBy(d), d)
    BY <1>8, <2>7, <2>10, <2>11, <2>12 DEF InMonth, FeatureVenues
  <2>14. ~ t.running => HeldRightly(t)
    BY <2>8, <2>11 DEF HeldRightly, FeatureVenues
  <2>15. QED
    BY <2>11, <2>13, <2>14 DEF t
<1>9. QED
  BY <1>5, <1>7, <1>8

\* A day counted: the state holds the venue documented for it.
LEMMA UpdatedRightly ==
  ASSUME FeaturesTypeOK, PassInOrder, NEW d \in TradeDays, d = pass.day, AnyTraded(d)
  PROVE  LET u == Update(pass.state, d)
         IN  /\ u \in PassStates /\ InMonth(u, MonthStart(d), GoneBy(d) \union {d}, d + 1)
             /\ HeldRightly(u) /\ u.venue = Documented(d)
<1> DEFINE month == MonthStart(d)
           t == Turned(pass.state, month)
           u == Update(pass.state, d)
           bse == t.bse + Turnover("BSE", d)
           nse == t.nse + Turnover("NSE", d)
<1>1. /\ t \in PassStates /\ InMonth(t, month, GoneBy(d), d)
      /\ ~ t.running => HeldRightly(t)
  BY TurnedRightly
<1>2. d \in Nat /\ month \in TradeDays /\ month \in Nat /\ month <= d /\ WindowDays \in Nat
  <2>1. d <= d
    BY TradeDaysAreNumbers
  <2>2. month \in TradeDays /\ month <= d
    BY <2>1, Months
  <2>3. QED
    BY <2>2, TradeDaysAreNumbers, FeaturesAssumption
<1>3. u = IF t.running
          THEN [t EXCEPT !.bse = bse, !.nse = nse, !.venue = Larger(bse, nse),
                         !.recent = @ \union {d}]
          ELSE [t EXCEPT !.recent = @ \union {d}]
  BY Zenon DEF Update
<1>4. /\ bse = SumTurnover("BSE", month .. d) \/ ~ t.running
      /\ nse = SumTurnover("NSE", month .. d) \/ ~ t.running
  <2>1. ASSUME NEW v \in FeatureVenues
        PROVE  SumTurnover(v, month .. d) = SumTurnover(v, month .. d - 1) + Turnover(v, d)
    BY <1>2, MonthAdds
  <2>2. "BSE" \in FeatureVenues /\ "NSE" \in FeatureVenues
    BY DEF FeatureVenues
  <2>3. /\ SumTurnover("BSE", month .. d) = SumTurnover("BSE", month .. d - 1) + Turnover("BSE", d)
        /\ SumTurnover("NSE", month .. d) = SumTurnover("NSE", month .. d - 1) + Turnover("NSE", d)
    BY <2>1, <2>2
  <2> HIDE DEF t, month
  <2>4. QED
    BY <1>1, <2>3 DEF InMonth
<1>5. \A v \in FeatureVenues : Turnover(v, d) \in Nat
  BY AmountsTyped
<1>6. "BSE" \in FeatureVenues /\ "NSE" \in FeatureVenues
  BY DEF FeatureVenues
<1> HIDE DEF t, u
<1>7. bse \in Nat /\ nse \in Nat /\ Larger(bse, nse) \in FeatureVenues
  BY <1>1, <1>5, <1>6 DEF PassStates, Larger
<1>8. t = [started |-> t.started, running |-> t.running, month |-> t.month, bse |-> t.bse,
           nse |-> t.nse, venue |-> t.venue, recent |-> t.recent]
  BY <1>1 DEF PassStates
<1> HIDE DEF bse, nse, month
<1>9. u = [started |-> t.started, running |-> t.running, month |-> t.month,
           bse |-> IF t.running THEN bse ELSE t.bse,
           nse |-> IF t.running THEN nse ELSE t.nse,
           venue |-> IF t.running THEN Larger(bse, nse) ELSE t.venue,
           recent |-> t.recent \union {d}]
  <2>1. CASE t.running
    <3>1. u = [t EXCEPT !.bse = bse, !.nse = nse, !.venue = Larger(bse, nse),
                        !.recent = t.recent \union {d}]
      BY <1>3, <2>1
    <3>2. u = [started |-> t.started, running |-> t.running, month |-> t.month, bse |-> bse,
               nse |-> nse, venue |-> Larger(bse, nse), recent |-> t.recent \union {d}]
      BY ONLY <1>8, <3>1
    <3>3. QED
      BY <2>1, <3>2
  <2>2. CASE ~ t.running
    <3>1. u = [t EXCEPT !.recent = t.recent \union {d}]
      BY <1>3, <2>2
    <3>2. u = [started |-> t.started, running |-> t.running, month |-> t.month, bse |-> t.bse,
               nse |-> t.nse, venue |-> t.venue, recent |-> t.recent \union {d}]
      BY ONLY <1>8, <3>1
    <3>3. QED
      BY <2>2, <3>2
  <2>3. QED
    BY <2>1, <2>2
<1>10. u \in PassStates
  BY <1>1, <1>7, <1>9 DEF PassStates
<1>11. /\ u.started = t.started /\ u.month = t.month /\ u.recent = t.recent \union {d}
       /\ u.running = t.running
       /\ t.running => u.bse = bse /\ u.nse = nse /\ u.venue = Larger(bse, nse)
       /\ ~ t.running => u.venue = t.venue
  BY ONLY <1>9
<1>12. t.recent \union {d} = {e \in GoneBy(d) \union {d} : month - WindowDays <= e}
  <2>1. t.recent = {e \in GoneBy(d) : month - WindowDays <= e}
    BY <1>1 DEF InMonth
  <2>2. month - WindowDays <= d
    BY ONLY <1>2
  <2>3. QED
    BY ONLY <2>1, <2>2
<1> DEFINE k == d + 1
           gone == GoneBy(d) \union {d}
<1>13. k - 1 = d
  BY ONLY <1>2
<1> HIDE DEF k, gone
<1>14. InMonth(u, month, gone, k)
  <2>1. u.started /\ u.month = month /\ (u.running <=> ByItself(month))
    BY <1>1, <1>11 DEF InMonth
  <2>2. u.running => /\ u.bse = SumTurnover("BSE", month .. k - 1)
                     /\ u.nse = SumTurnover("NSE", month .. k - 1)
    BY <1>4, <1>11, <1>13
  <2>3. u.recent = {e \in gone : month - WindowDays <= e}
    BY <1>11, <1>12 DEF gone
  <2>4. QED
    BY <2>1, <2>2, <2>3, Zenon DEF InMonth
<1>15. HeldRightly(u)
  BY <1>1, <1>11 DEF HeldRightly
<1>16. u.venue = Documented(d)
  <2>1. u.month = month /\ (u.running <=> ByItself(month))
    BY <1>1, <1>11 DEF InMonth
  <2>2. CASE u.running
    <3>1. u.venue = Larger(SumTurnover("BSE", month .. d), SumTurnover("NSE", month .. d))
      BY <1>4, <1>11, <2>2
    <3>2. QED
      BY <2>1, <2>2, <3>1 DEF Documented, month
  <2>3. CASE ~ u.running
    <3>1. u.venue = Larger(SumTurnover("BSE", MonthWindow(month)),
                           SumTurnover("NSE", MonthWindow(month)))
      BY <1>15, <2>1, <2>3 DEF HeldRightly
    <3>2. QED
      BY <2>1, <2>3, <3>1 DEF Documented, month
  <2>4. QED
    BY <2>2, <2>3
<1>17. QED
  BY <1>10, <1>14, <1>15, <1>16 DEF u, month, k, gone

\* While the bars stay as they are, so does what is documented of them.
LEMMA SeriesFrozen ==
  ASSUME UNCHANGED series
  PROVE  /\ \A n : GoneBy(n)' = GoneBy(n)
         /\ \A v, S : SumTurnover(v, S)' = SumTurnover(v, S)
         /\ \A d : Documented(d)' = Documented(d)
         /\ \A st, m, D, n : InMonth(st, m, D, n)' <=> InMonth(st, m, D, n)
         /\ \A st : HeldRightly(st)' <=> HeldRightly(st)
<1>1. \A n : GoneBy(n)' = GoneBy(n)
  BY DEF GoneBy, AnyTraded, Traded
<1>2. \A v, d : Turnover(v, d)' = Turnover(v, d)
  BY DEF Turnover, Traded
<1>3. \A v, S : SumTurnover(v, S)' = SumTurnover(v, S)
  BY <1>2 DEF SumTurnover
<1>4. \A m : ByItself(m)' <=> ByItself(m)
  BY <1>3 DEF ByItself, FirstMonth, NoTurnover, Traded
<1>5. \A d : Documented(d)' = Documented(d)
  BY <1>3, <1>4 DEF Documented
<1>6. \A st, m, D, n : InMonth(st, m, D, n)' <=> InMonth(st, m, D, n)
  BY <1>3, <1>4 DEF InMonth
<1>7. \A st : HeldRightly(st)' <=> HeldRightly(st)
  BY <1>3 DEF HeldRightly
<1>8. QED
  BY <1>1, <1>3, <1>5, <1>6, <1>7

-----------------------------------------------------------------------------
(* The steps.                                                              *)

FeaturesIInv == FeaturesTypeOK /\ Passing

\* The steps on a bar, and those on the action of an ex-date.
BarStep(v, d) ==
  \/ \E bar \in Bars : ReadBar(v, d, bar) \/ CorrectBar(v, d, bar)
  \/ \E shares \in Shares : ReadDelivery(v, d, shares) \/ CorrectDelivery(v, d, shares)
  \/ \E other \in Drawn(d) : Relink(v, d, other)

ActionStep(x) == KnowAction(x) \/ \E known \in Unknown .. now : Rejudge(x, known)

StandingBars == [close : Nat, turnover : Nat, known : KnownDates, shares : Nat,
                 delivered : KnownDates]

\* Today and the days up to it are dates.
LEMMA TodayIsADate ==
  ASSUME FeaturesTypeOK
  PROVE  /\ now \in KnownDates /\ now \in Nat /\ now # Unknown /\ KnownDates \subseteq Nat
         /\ Unknown \in KnownDates /\ TradeDays \subseteq KnownDates
         /\ \A k \in Nat : k <= now => k \in KnownDates
<1>1. KnownDates = 0 .. LastKnownDay /\ LastKnownDay \in Nat /\ now \in 1 .. LastKnownDay
  BY FeaturesAssumption DEF FeaturesTypeOK, KnownDates, Unknown
<1>2. \A d \in TradeDays : d \in KnownDates
  BY <1>1, TradeDaysAreNumbers, FeaturesAssumption
<1>3. QED
  BY <1>1, <1>2 DEF Unknown

\* A step on a bar puts another in its place, which carries today's date unless the day
\* counts as undated.
LEMMA BarSteps ==
  ASSUME FeaturesTypeOK, NEW v \in FeatureVenues, NEW d \in TradeDays, BarStep(v, d)
  PROVE  /\ Fact /\ splits' = splits /\ verdicts' = verdicts
         /\ \E b \in StandingBars :
              /\ series' = [series EXCEPT ![v][d] = b]
              /\ \/ undated' = undated \union {d}
                 \/ /\ undated' = undated /\ b.known # Unknown
                    /\ (b.known = now \/ b.delivered = now)
<1>1. series[v][d] \in StandingBars
  BY DEF FeaturesTypeOK, StandingBars
<1>2. now \in KnownDates /\ now # Unknown /\ d \in KnownDates /\ Unknown \in KnownDates
  BY TodayIsADate
<1>3. ASSUME NEW bar \in Bars, ReadBar(v, d, bar)
      PROVE  \E b \in StandingBars : /\ series' = [series EXCEPT ![v][d] = b]
                                     /\ undated' = undated \union {d}
  <2> DEFINE b == [NoBar EXCEPT !.close = bar.close, !.turnover = bar.turnover, !.known = d]
  <2>1. b \in StandingBars
    BY <1>2, FeaturesAssumption DEF StandingBars, NoBar
  <2>2. series' = [series EXCEPT ![v][d] = b] /\ undated' = undated \union {d}
    BY <1>3, Zenon DEF ReadBar, Undated
  <2>3. QED
    BY <2>1, <2>2
<1>4. ASSUME NEW bar \in Bars, CorrectBar(v, d, bar)
      PROVE  \E b \in StandingBars : /\ series' = [series EXCEPT ![v][d] = b]
                                     /\ undated' = undated /\ b.known # Unknown /\ b.known = now
  <2> DEFINE b == [series[v][d] EXCEPT !.close = bar.close, !.turnover = bar.turnover, !.known = now]
  <2>1. b \in StandingBars /\ b.known = now
    BY <1>1, <1>2, FeaturesAssumption DEF StandingBars
  <2>2. series' = [series EXCEPT ![v][d] = b] /\ undated' = undated
    BY <1>4 DEF CorrectBar, FeaturesTypeOK
  <2>3. QED
    BY <1>2, <2>1, <2>2
<1>5. ASSUME NEW shares \in Shares, ReadDelivery(v, d, shares)
      PROVE  \E b \in StandingBars : /\ series' = [series EXCEPT ![v][d] = b]
                                     /\ undated' = undated \union {d}
  <2> DEFINE b == [series[v][d] EXCEPT !.shares = shares, !.delivered = d]
  <2>1. b \in StandingBars
    BY <1>1, <1>2, FeaturesAssumption DEF StandingBars
  <2>2. series' = [series EXCEPT ![v][d] = b] /\ undated' = undated \union {d}
    BY <1>5 DEF ReadDelivery, Undated, FeaturesTypeOK
  <2>3. QED
    BY <2>1, <2>2
<1>6. ASSUME NEW shares \in Shares, CorrectDelivery(v, d, shares)
      PROVE  \E b \in StandingBars : /\ series' = [series EXCEPT ![v][d] = b]
                                     /\ undated' = undated /\ b.known # Unknown
                                     /\ b.delivered = now
  <2> DEFINE b == [series[v][d] EXCEPT !.shares = shares, !.delivered = now]
  <2>1. b \in StandingBars /\ b.known = series[v][d].known /\ b.delivered = now
    BY <1>1, <1>2, FeaturesAssumption DEF StandingBars
  <2>2. series' = [series EXCEPT ![v][d] = b] /\ undated' = undated
    BY <1>6 DEF CorrectDelivery, FeaturesTypeOK
  <2>3. series[v][d].known # Unknown
    BY <1>6 DEF CorrectDelivery, Traded
  <2>4. QED
    BY <2>1, <2>2, <2>3
<1>7. ASSUME NEW other \in Drawn(d), Relink(v, d, other)
      PROVE  \E b \in StandingBars : /\ series' = [series EXCEPT ![v][d] = b]
                                     /\ undated' = undated \union {d}
  <2>1. CASE other = NoBar
    BY <1>2, <1>7, <2>1 DEF Relink, Undated, NoBar, StandingBars, Unpriced
  <2>2. CASE other # NoBar
    <3>1. /\ other \in [close : Nat, turnover : Nat, known : Nat \ {0}, shares : Nat,
                        delivered : Nat]
          /\ other.known <= now /\ other.delivered <= now
      BY <2>2, FeaturesAssumption, TradeDaysAreNumbers, TodayIsADate DEF Drawn
    <3>2. other.known \in KnownDates /\ other.delivered \in KnownDates
      BY <3>1, TodayIsADate
    <3>3. other \in StandingBars
      BY <3>1, <3>2 DEF StandingBars
    <3>4. QED
      BY <1>7, <3>3 DEF Relink, Undated
  <2>3. QED
    BY <2>1, <2>2
<1>8. Fact /\ splits' = splits /\ verdicts' = verdicts
  BY DEF BarStep, ReadBar, CorrectBar, ReadDelivery, CorrectDelivery, Relink
<1>9. QED
  BY <1>3, <1>4, <1>5, <1>6, <1>7, <1>8 DEF BarStep

\* A step on an action gives it another date: today's, unless the ex-date counts as undated.
LEMMA ActionSteps ==
  ASSUME FeaturesTypeOK, NEW x \in TradeDays, ActionStep(x)
  PROVE  /\ Fact /\ series' = series /\ verdicts' = verdicts
         /\ \E k \in KnownDates :
              /\ splits' = [splits EXCEPT ![x] = k]
              /\ undated' = undated \union {x} \/ (undated' = undated /\ k = now)
<1>1. now \in KnownDates /\ now \in Nat
  BY TodayIsADate
<1>2. CASE KnowAction(x)
  BY <1>1, <1>2 DEF KnowAction
<1>3. ASSUME NEW known \in Unknown .. now, Rejudge(x, known)
      PROVE  /\ Fact /\ series' = series /\ verdicts' = verdicts
             /\ splits' = [splits EXCEPT ![x] = known] /\ undated' = undated \union {x}
             /\ known \in KnownDates
  <2>1. known \in Nat /\ known <= now
    BY <1>1 DEF Unknown
  <2>2. known \in KnownDates
    BY <2>1, TodayIsADate
  <2>3. QED
    BY <1>3, <2>2 DEF Rejudge, Undated
<1>4. QED
  BY <1>2, <1>3 DEF ActionStep

\* The steps that change what is known leave a pass alone, none of which is under way.
LEMMA FactTyped ==
  ASSUME FeaturesTypeOK, NEW v \in FeatureVenues, NEW d \in TradeDays,
         \/ BarStep(v, d) \/ ActionStep(d)
         \/ \E complete \in BOOLEAN : JudgeDay(v, d, complete)
  PROVE  FeaturesTypeOK' /\ UNCHANGED <<now, pass, rows, computedOn, computations>> /\ ~ Computing
<1> DEFINE Facts == [TradeDays -> StandingBars]
           Judged == [TradeDays -> [complete : BOOLEAN, known : KnownDates]]
<1>1. /\ now' = now /\ pass' = pass /\ rows' = rows /\ computedOn' = computedOn
      /\ computations' = computations /\ ~ Computing
      /\ facts' = facts + 1 /\ facts < MaxFacts
  BY BarSteps, ActionSteps DEF Fact, JudgeDay
<1>2. facts' \in 0 .. MaxFacts
  BY <1>1, FeaturesAssumption DEF FeaturesTypeOK
<1>3. now \in KnownDates /\ d \in KnownDates
  BY TodayIsADate
<1>4. /\ series \in [FeatureVenues -> Facts] /\ verdicts \in [FeatureVenues -> Judged]
      /\ splits \in [TradeDays -> KnownDates] /\ undated \subseteq TradeDays
  BY DEF FeaturesTypeOK, StandingBars
<1>5. CASE BarStep(v, d)
  <2>1. PICK b \in StandingBars : series' = [series EXCEPT ![v][d] = b]
    BY <1>5, BarSteps
  <2>2. splits' = splits /\ verdicts' = verdicts /\ undated' \subseteq TradeDays
    BY <1>4, <1>5, BarSteps
  <2>3. series[v] \in Facts
    BY <1>4
  <2>4. [series[v] EXCEPT ![d] = b] \in Facts
    BY <2>3
  <2>5. series' = [series EXCEPT ![v] = [series[v] EXCEPT ![d] = b]]
    BY <2>1, Zenon
  <2> HIDE DEF Facts
  <2>6. series' \in [FeatureVenues -> Facts]
    BY <1>4, <2>4, <2>5
  <2>7. QED
    BY <1>1, <1>2, <1>4, <2>2, <2>6 DEF FeaturesTypeOK, Facts, StandingBars
<1>6. CASE ActionStep(d)
  <2>1. PICK k \in KnownDates : splits' = [splits EXCEPT ![d] = k]
    BY <1>6, ActionSteps
  <2>2. series' = series /\ verdicts' = verdicts /\ undated' \subseteq TradeDays
    BY <1>4, <1>6, ActionSteps
  <2>3. splits' \in [TradeDays -> KnownDates]
    BY <1>4, <2>1
  <2>4. QED
    BY <1>1, <1>2, <1>4, <2>2, <2>3 DEF FeaturesTypeOK
<1>7. ASSUME NEW complete \in BOOLEAN, JudgeDay(v, d, complete)
      PROVE  /\ verdicts' \in [FeatureVenues -> Judged] /\ undated' \subseteq TradeDays
             /\ series' = series /\ splits' = splits
  <2> DEFINE k == IF verdicts[v][d].known = Unknown THEN d ELSE now
             j == [complete |-> complete, known |-> k]
  <2>1. j \in [complete : BOOLEAN, known : KnownDates]
    BY <1>3
  <2>2. verdicts[v] \in Judged
    BY <1>4
  <2> HIDE DEF j
  <2>3. [verdicts[v] EXCEPT ![d] = j] \in Judged
    BY <2>1, <2>2
  <2>4. verdicts' = [verdicts EXCEPT ![v] = [verdicts[v] EXCEPT ![d] = j]]
    BY <1>7, Zenon DEF JudgeDay, j
  <2>5. undated' \subseteq TradeDays /\ series' = series /\ splits' = splits
    BY <1>4, <1>7 DEF JudgeDay, Undated
  <2> HIDE DEF Judged
  <2>6. QED
    BY <1>4, <2>3, <2>4, <2>5
<1>8. CASE \E complete \in BOOLEAN : JudgeDay(v, d, complete)
  <2>1. /\ verdicts' \in [FeatureVenues -> Judged] /\ undated' \subseteq TradeDays
        /\ series' = series /\ splits' = splits
    BY <1>7, <1>8
  <2>2. QED
    BY <1>1, <1>2, <1>4, <2>1 DEF FeaturesTypeOK, Judged
<1>9. QED
  BY <1>1, <1>5, <1>6, <1>8

\* No pass is under way to begin with.
LEMMA FeaturesInitInvariant == FeaturesInit => FeaturesIInv
<1>1. SUFFICES ASSUME FeaturesInit PROVE FeaturesIInv
  OBVIOUS
<1>2. /\ 1 \in 1 .. LastKnownDay /\ 0 \in 0 .. MaxFacts /\ 0 \in 0 .. MaxComputations
      /\ 0 \in 0 .. LastTradeDay + 1 /\ 0 \in KnownDates
  BY FeaturesAssumption DEF KnownDates, Unknown
<1>3. pass.day = 0 /\ DOMAIN pass.designated = {} /\ DOMAIN rows = {}
  BY <1>1 DEF FeaturesInit, NoPass
<1>4. series \in [FeatureVenues -> [TradeDays -> [close : Nat, turnover : Nat, known : KnownDates,
                                                  shares : Nat, delivered : KnownDates]]]
  BY <1>1, <1>2 DEF FeaturesInit, NoBar, Unpriced, Unknown
<1>5. /\ splits \in [TradeDays -> KnownDates]
      /\ verdicts \in [FeatureVenues -> [TradeDays -> [complete : BOOLEAN, known : KnownDates]]]
  BY <1>1, <1>2 DEF FeaturesInit, Unknown
<1>6. computedOn \in Unknown .. now
  BY <1>1 DEF FeaturesInit, Unknown
<1>7. FeaturesTypeOK
  BY <1>1, <1>2, <1>3, <1>4, <1>5, <1>6 DEF FeaturesInit, FeaturesTypeOK
<1>8. Passing
  BY <1>1, <1>3 DEF FeaturesInit, Passing, Computing
<1>9. QED
  BY <1>7, <1>8 DEF FeaturesIInv

\* A pass begins with no day behind it.
LEMMA StartInvariant ==
  ASSUME FeaturesIInv, StartComputation
  PROVE  FeaturesIInv'
<1>1. /\ pass' = [day |-> 1, state |-> NotStarted, designated |-> [d \in {} |-> "BSE"]]
      /\ computations' = computations + 1 /\ computations < MaxComputations
      /\ now' = now /\ series' = series /\ splits' = splits /\ verdicts' = verdicts
      /\ rows' = rows /\ computedOn' = computedOn /\ undated' = undated /\ facts' = facts
  BY DEF StartComputation, NoPass
<1>2. computations' \in 0 .. MaxComputations /\ 1 \in 1 .. LastTradeDay + 1
      /\ 1 \in 0 .. LastTradeDay + 1
  BY <1>1, FeaturesAssumption DEF FeaturesIInv, FeaturesTypeOK
<1>3. pass'.day = 1 /\ pass'.state = NotStarted /\ pass'.designated = [d \in {} |-> "BSE"]
  BY <1>1
<1>4. FeaturesTypeOK'
  BY <1>1, <1>2, <1>3 DEF FeaturesIInv, FeaturesTypeOK
<1>5. (GoneBy(pass.day))' = {}
  BY <1>3, TradeDaysAreNumbers DEF GoneBy
<1>6. NotStarted \in PassStates
  BY DEF NotStarted, PassStates, FeatureVenues
<1>7. PassInOrder'
  <2>1. pass' = [day |-> pass'.day, state |-> pass'.state, designated |-> pass'.designated]
    BY <1>1
  <2>2. (pass.designated = [d \in GoneBy(pass.day) |-> Documented(d)])'
    BY <1>3, <1>5
  <2>3. QED
    BY <1>2, <1>3, <1>5, <1>6, <2>1, <2>2 DEF PassInOrder
<1>8. QED
  BY <1>3, <1>4, <1>7 DEF FeaturesIInv, Passing, Computing

\* A day neither venue traded leaves what is behind a pass as it is.
LEMMA UntradedDay ==
  ASSUME FeaturesTypeOK, PassInOrder, NEW d \in TradeDays, d = pass.day, ~ AnyTraded(d),
         NEW last \in GoneBy(d), InMonth(pass.state, MonthStart(last), GoneBy(d), d)
  PROVE  InMonth(pass.state, MonthStart(last), GoneBy(d), d + 1)
<1> DEFINE month == MonthStart(last)
           k == d + 1
<1>1. last \in TradeDays /\ last < d /\ d \in Nat
  BY TradeDaysAreNumbers DEF GoneBy
<1>2. month \in TradeDays /\ month <= d
  <2>1. last <= last /\ last \in Nat
    BY <1>1, TradeDaysAreNumbers
  <2>2. month \in TradeDays /\ month <= last
    BY <1>1, <2>1, Months
  <2>3. month \in Nat
    BY <2>2, TradeDaysAreNumbers
  <2> HIDE DEF month
  <2>4. QED
    BY <1>1, <2>1, <2>2, <2>3
<1>3. ASSUME NEW v \in FeatureVenues
      PROVE  SumTurnover(v, month .. d) = SumTurnover(v, month .. d - 1)
  <2>1. ASSUME NEW n \in TradeDays, AnyTraded(n)
        PROVE  n \in month .. d <=> n \in month .. d - 1
    <3>1. n # d /\ n \in Nat /\ month \in Nat
      BY <1>2, <2>1, TradeDaysAreNumbers
    <3> HIDE DEF month
    <3>2. QED
      BY ONLY <1>1, <3>1
  <2> HIDE DEF month
  <2>2. QED
    BY <2>1, UntradedCountsNothing
<1>4. k - 1 = d /\ "BSE" \in FeatureVenues /\ "NSE" \in FeatureVenues
  BY <1>1 DEF FeatureVenues
<1> HIDE DEF month, k
<1>5. InMonth(pass.state, month, GoneBy(d), k)
  <2>1. InMonth(pass.state, month, GoneBy(d), d)
    BY DEF month
  <2>2. pass.state.running => /\ pass.state.bse = SumTurnover("BSE", month .. k - 1)
                              /\ pass.state.nse = SumTurnover("NSE", month .. k - 1)
    BY <1>3, <1>4, <2>1 DEF InMonth
  <2>3. QED
    BY <2>1, <2>2, Zenon DEF InMonth
<1>6. QED
  BY <1>5 DEF month, k

\* A day gone by is one more behind.
LEMMA GoneByAdds ==
  ASSUME NEW d \in TradeDays
  PROVE  /\ AnyTraded(d) => GoneBy(d + 1) = GoneBy(d) \union {d}
         /\ ~ AnyTraded(d) => GoneBy(d + 1) = GoneBy(d)
         /\ d \notin GoneBy(d) /\ \A e \in GoneBy(d) : e < d
<1>1. d \in Nat /\ \A e \in TradeDays : e \in Nat
  BY TradeDaysAreNumbers
<1>2. \A e \in Nat : e < d + 1 <=> e < d \/ e = d
  BY ONLY <1>1
<1>3. ~ (d < d)
  BY ONLY <1>1
<1>4. QED
  BY <1>1, <1>2, <1>3 DEF GoneBy

\* A day designated is one more day behind the pass, held as documented.
LEMMA DesignateInvariant ==
  ASSUME FeaturesIInv, Designate
  PROVE  FeaturesIInv'
<1> DEFINE d == pass.day
<1>1. /\ d \in TradeDays
      /\ now' = now /\ series' = series /\ splits' = splits /\ verdicts' = verdicts
      /\ rows' = rows /\ computedOn' = computedOn /\ undated' = undated /\ facts' = facts
      /\ computations' = computations
  BY DEF Designate
<1>2. d \in Nat /\ d # 0 /\ d + 1 \in 1 .. LastTradeDay + 1 /\ d + 1 \in 0 .. LastTradeDay + 1
      /\ d + 1 # 0
  BY <1>1, TradeDaysAreNumbers
<1>3. FeaturesTypeOK /\ PassInOrder
  BY <1>2 DEF FeaturesIInv, Passing, Computing
<1> DEFINE u == Update(pass.state, d)
           gone == IF AnyTraded(d) THEN GoneBy(d) \union {d} ELSE GoneBy(d)
<1>4. /\ pass' = [day |-> d + 1, state |-> pass'.state, designated |-> pass'.designated]
      /\ AnyTraded(d) => /\ pass'.state = u
                         /\ pass'.designated = [e \in DOMAIN pass.designated \union {d} |->
                              IF e = d THEN u.venue ELSE pass.designated[e]]
      /\ ~ AnyTraded(d) => pass'.state = pass.state /\ pass'.designated = pass.designated
  <2>1. CASE AnyTraded(d)
    <3>1. PICK state \in {u} : pass' = [day |-> d + 1, state |-> state,
             designated |-> [e \in DOMAIN pass.designated \union {d} |->
                              IF e = d THEN state.venue ELSE pass.designated[e]]]
      BY <2>1 DEF Designate, AnyTraded
    <3>2. state = u
      OBVIOUS
    <3> HIDE DEF u
    <3>3. QED
      BY <2>1, <3>1, <3>2
  <2>2. CASE ~ AnyTraded(d)
    <3>1. pass' = [pass EXCEPT !.day = d + 1]
      BY <2>2 DEF Designate, AnyTraded
    <3>2. pass = [day |-> pass.day, state |-> pass.state, designated |-> pass.designated]
      BY <1>3 DEF PassInOrder
    <3>3. pass' = [day |-> d + 1, state |-> pass.state, designated |-> pass.designated]
      BY ONLY <3>1, <3>2
    <3>4. QED
      BY <2>2, <3>3
  <2>3. QED
    BY <2>1, <2>2
<1>5. pass'.day = d + 1
  BY <1>4
<1>6. GoneBy(d + 1) = gone
  BY <1>1, GoneByAdds
<1>7. /\ u \in PassStates \/ ~ AnyTraded(d)
      /\ AnyTraded(d) => /\ InMonth(u, MonthStart(d), GoneBy(d) \union {d}, d + 1)
                         /\ HeldRightly(u) /\ u.venue = Documented(d)
  BY <1>1, <1>3, UpdatedRightly
<1>8. pass.designated = [e \in GoneBy(d) |-> Documented(e)] /\ pass.state \in PassStates
  BY <1>3 DEF PassInOrder
<1>9. pass'.state \in PassStates
  BY <1>4, <1>7, <1>8
<1> HIDE DEF u
<1>10. pass'.designated = [e \in gone |-> Documented(e)]
  <2>1. CASE AnyTraded(d)
    <3>1. d \notin GoneBy(d)
      BY <1>1, GoneByAdds
    <3>2. DOMAIN pass.designated = GoneBy(d) /\ \A e \in GoneBy(d) : pass.designated[e] = Documented(e)
      BY <1>8
    <3>3. pass'.designated = [e \in GoneBy(d) \union {d} |->
                               IF e = d THEN u.venue ELSE pass.designated[e]]
      BY <1>4, <2>1, <3>2
    <3>4. \A e \in GoneBy(d) \union {d} :
             (IF e = d THEN u.venue ELSE pass.designated[e]) = Documented(e)
      BY <1>7, <2>1, <3>2
    <3>5. QED
      BY <2>1, <3>3, <3>4
  <2>2. CASE ~ AnyTraded(d)
    BY <1>4, <1>8, <2>2
  <2>3. QED
    BY <2>1, <2>2
<1>11. gone # {} \/ pass'.state = NotStarted
  <2>1. CASE AnyTraded(d)
    BY <2>1
  <2>2. CASE ~ AnyTraded(d)
    BY <1>3, <1>4, <2>2 DEF PassInOrder
  <2>3. QED
    BY <2>1, <2>2
<1>12. ASSUME NEW last \in gone, \A e \in gone : e <= last
       PROVE  InMonth(pass'.state, MonthStart(last), gone, d + 1) /\ HeldRightly(pass'.state)
  <2>1. CASE AnyTraded(d)
    <3>1. last = d
      <4>1. d <= last /\ d \in gone
        BY <1>12, <2>1
      <4>2. last = d \/ last < d
        BY <1>1, <2>1, GoneByAdds
      <4>3. last \in Nat
        BY <1>1, <2>1, TradeDaysAreNumbers DEF GoneBy
      <4>4. QED
        BY ONLY <1>2, <4>1, <4>2, <4>3
    <3>2. QED
      BY <1>4, <1>7, <2>1, <3>1
  <2>2. CASE ~ AnyTraded(d)
    <3>1. last \in GoneBy(d) /\ \A e \in GoneBy(d) : e <= last
      BY <1>12, <2>2
    <3>2. InMonth(pass.state, MonthStart(last), GoneBy(d), d) /\ HeldRightly(pass.state)
      BY <1>3, <3>1 DEF PassInOrder
    <3>3. InMonth(pass.state, MonthStart(last), GoneBy(d), d + 1)
      BY <1>1, <1>3, <2>2, <3>1, <3>2, UntradedDay
    <3>4. QED
      BY <1>4, <2>2, <3>2, <3>3
  <2>3. QED
    BY <2>1, <2>2
<1>13. /\ (GoneBy(pass.day))' = gone
       /\ \A e : Documented(e)' = Documented(e)
       /\ \A st, m, D, n : InMonth(st, m, D, n)' <=> InMonth(st, m, D, n)
       /\ \A st : HeldRightly(st)' <=> HeldRightly(st)
  BY <1>1, <1>5, <1>6, SeriesFrozen
<1> HIDE DEF gone
<1>14. PassInOrder'
  <2>1. pass' = [day |-> pass'.day, state |-> pass'.state, designated |-> pass'.designated]
    BY <1>4, <1>5
  <2>2. (pass.designated = [e \in GoneBy(pass.day) |-> Documented(e)])'
    BY <1>10, <1>13
  <2>3. (\A last \in GoneBy(pass.day) :
           (\A e \in GoneBy(pass.day) : e <= last)
             => /\ InMonth(pass.state, MonthStart(last), GoneBy(pass.day), pass.day)
                /\ HeldRightly(pass.state))'
    BY <1>5, <1>12, <1>13
  <2>4. QED
    BY <1>2, <1>5, <1>9, <1>11, <1>13, <2>1, <2>2, <2>3 DEF PassInOrder
<1>15. FeaturesTypeOK'
  <2>1. DOMAIN pass'.designated \subseteq TradeDays
    BY <1>6, <1>10 DEF GoneBy
  <2>2. QED
    BY <1>1, <1>2, <1>3, <1>5, <2>1 DEF FeaturesTypeOK
<1>16. QED
  BY <1>2, <1>5, <1>14, <1>15 DEF FeaturesIInv, Passing, Computing

\* Storing the rows ends the pass.
LEMMA StoreRowsInvariant ==
  ASSUME FeaturesIInv, StoreRows
  PROVE  FeaturesIInv'
<1>1. /\ pass' = NoPass /\ now' = now /\ series' = series /\ splits' = splits
      /\ verdicts' = verdicts /\ facts' = facts /\ computations' = computations
  BY DEF StoreRows
<1>2. /\ DOMAIN rows' \subseteq TradeDays /\ computedOn' \in Unknown .. now
      /\ undated' \subseteq TradeDays
  <2>1. CASE RefusedDay(pass.designated)
    BY <2>1 DEF StoreRows, FeaturesIInv, FeaturesTypeOK
  <2>2. CASE ~ RefusedDay(pass.designated)
    <3>1. rows' = Rows(pass.designated) /\ computedOn' = now /\ undated' = {}
      BY <2>2 DEF StoreRows
    <3>2. DOMAIN Rows(pass.designated) \subseteq DOMAIN pass.designated
      BY DEF Rows, RowDays
    <3>3. now \in Unknown .. now
      BY FeaturesAssumption DEF FeaturesIInv, FeaturesTypeOK, Unknown
    <3>4. QED
      BY <3>1, <3>2, <3>3 DEF FeaturesIInv, FeaturesTypeOK
  <2>3. QED
    BY <2>1, <2>2
<1>3. pass'.day = 0 /\ DOMAIN pass'.designated = {} /\ 0 \in 0 .. LastTradeDay + 1
  BY <1>1, TradeDaysAreNumbers DEF NoPass
<1>4. FeaturesTypeOK'
  BY <1>1, <1>2, <1>3 DEF FeaturesIInv, FeaturesTypeOK
<1>5. QED
  BY <1>1, <1>3, <1>4 DEF FeaturesIInv, Passing, Computing

\* A day goes by between passes.
LEMMA PassDayInvariant ==
  ASSUME FeaturesIInv, PassDay
  PROVE  FeaturesIInv'
<1>1. /\ now' = now + 1 /\ now < LastKnownDay /\ pass' = pass /\ ~ Computing
      /\ series' = series /\ splits' = splits
      /\ verdicts' = verdicts /\ rows' = rows /\ computedOn' = computedOn
      /\ undated' = undated /\ facts' = facts /\ computations' = computations
  BY DEF PassDay
<1>2. now \in 1 .. LastKnownDay /\ computedOn \in Unknown .. now /\ LastKnownDay \in Nat
  BY FeaturesAssumption DEF FeaturesIInv, FeaturesTypeOK
<1>3. now + 1 \in 1 .. LastKnownDay /\ computedOn \in Unknown .. now + 1
  BY <1>1, <1>2 DEF Unknown
<1>4. FeaturesTypeOK'
  BY <1>1, <1>3 DEF FeaturesIInv, FeaturesTypeOK
<1>5. QED
  BY <1>1, <1>4 DEF FeaturesIInv, Passing, Computing

\* Every step keeps the invariant.
LEMMA FeaturesNextInvariant == FeaturesIInv /\ [FeaturesNext]_featureVars => FeaturesIInv'
<1>1. SUFFICES ASSUME FeaturesIInv, [FeaturesNext]_featureVars PROVE FeaturesIInv'
  OBVIOUS
<1>2. ASSUME NEW v \in FeatureVenues, NEW d \in TradeDays,
             \/ BarStep(v, d) \/ ActionStep(d)
             \/ \E complete \in BOOLEAN : JudgeDay(v, d, complete)
      PROVE  FeaturesIInv'
  <2>1. FeaturesTypeOK' /\ pass' = pass /\ ~ Computing
    BY <1>1, <1>2, FactTyped DEF FeaturesIInv
  <2>2. QED
    BY <1>1, <2>1 DEF FeaturesIInv, Passing, Computing
<1>3. CASE UNCHANGED featureVars
  <2>1. UNCHANGED <<now, series, splits, verdicts, pass, rows, computedOn, undated, facts,
                    computations>>
    BY <1>3 DEF featureVars
  <2>2. FeaturesTypeOK'
    BY <1>1, <2>1 DEF FeaturesIInv, FeaturesTypeOK
  <2>3. /\ (GoneBy(pass.day))' = GoneBy(pass.day)
        /\ \A e : Documented(e)' = Documented(e)
        /\ \A st, m, D, n : InMonth(st, m, D, n)' <=> InMonth(st, m, D, n)
        /\ \A st : HeldRightly(st)' <=> HeldRightly(st)
    BY <2>1, SeriesFrozen
  <2>4. Passing'
    BY <1>1, <2>1, <2>3 DEF FeaturesIInv, Passing, Computing, PassInOrder
  <2>5. QED
    BY <2>2, <2>4 DEF FeaturesIInv
<1>4. CASE PassDay
  BY <1>1, <1>4, PassDayInvariant
<1>5. CASE StartComputation
  BY <1>1, <1>5, StartInvariant
<1>6. CASE Designate
  BY <1>1, <1>6, DesignateInvariant
<1>7. CASE StoreRows
  BY <1>1, <1>7, StoreRowsInvariant
<1>8. "BSE" \in FeatureVenues
  BY DEF FeatureVenues
<1>9. QED
  BY <1>1, <1>2, <1>3, <1>4, <1>5, <1>6, <1>7, <1>8 DEF FeaturesNext, BarStep, ActionStep

\* The invariant holds throughout.
LEMMA FeaturesInductive == FeaturesSpec => []FeaturesIInv
<1>1. QED
  BY FeaturesInitInvariant, FeaturesNextInvariant, PTL DEF FeaturesSpec

\* What the state holds is of its type, whatever the bars.
THEOREM FeaturesTypeCorrect == FeaturesSpec => []FeaturesTypeOK
<1>1. FeaturesIInv => FeaturesTypeOK
  BY DEF FeaturesIInv
<1>2. QED
  BY <1>1, FeaturesInductive, PTL

\* The venue `PrimaryVenueState` holds on each day is the documented one.
THEOREM PrimaryVenueIsDocumented == FeaturesSpec => []PrimaryVenueAsDefined
<1>1. FeaturesIInv => PrimaryVenueAsDefined
  <2>1. SUFFICES ASSUME FeaturesIInv, NEW d \in DOMAIN pass.designated
                 PROVE  pass.designated[d] = Documented(d)
    BY Zenon DEF PrimaryVenueAsDefined, Documented, ByItself, FirstMonth, NoTurnover,
       MonthWindow
  <2>2. CASE Computing
    BY <2>1, <2>2 DEF FeaturesIInv, Passing, PassInOrder
  <2>3. CASE ~ Computing
    BY <2>1, <2>3 DEF FeaturesIInv, Passing, NoPass
  <2>4. QED
    BY <2>2, <2>3
<1>2. QED
  BY <1>1, FeaturesInductive, PTL

-----------------------------------------------------------------------------
(* How rows are dated.                                                     *)

\* The row of a day, as what is held would have it.
RowOf(d) ==
  [venue |-> Documented(d), figures |-> FiguresRead(Documented(d), d), spread |-> Gap(d),
   diverging |-> IsDiverging(d), complete |-> verdicts[Documented(d)][d].complete,
   asOf |-> Known(Documented(d), d)]

\* Nothing a day's row reads was learned since the computation.
ReadsNothingNew(d) ==
  /\ \A v \in FeatureVenues, e \in 1 .. d : BarKnown(v, e) < computedOn
  /\ \A x \in 1 .. d : splits[x] < computedOn
  /\ verdicts[Documented(d)][d].known < computedOn
  /\ \A e \in undated : d < e

RowsStand == \A d \in DOMAIN rows : ReadsNothingNew(d) => rows[d] = RowOf(d)

RowsIInv == FeaturesIInv /\ RowsStand

\* Each venue's facts up to a day are as they were.
SameBars(d) == \A v \in FeatureVenues, e \in 1 .. d : series'[v][e] = series[v][e]
SameScales(d) == \A e \in 1 .. d : (Factor(e) - Factor(d))' = Factor(e) - Factor(d)

\* The days up to a trading day are trading days.
LEMMA DaysUpTo ==
  ASSUME NEW d \in TradeDays
  PROVE  /\ 1 .. d \subseteq TradeDays /\ d \in 1 .. d
         /\ \A e \in 1 .. d : e \in Int /\ e <= d
         /\ \A e \in TradeDays : e <= d => e \in 1 .. d
<1>1. d \in Nat /\ 1 <= d /\ d <= LastTradeDay /\ LastTradeDay \in Nat
  BY TradeDaysAreNumbers
<1>2. QED
  BY <1>1 DEF TradeDays

\* A venue's amounts after a step are amounts.
LEMMA NextAmounts ==
  ASSUME FeaturesTypeOK', NEW v \in FeatureVenues
  PROVE  /\ Amount(v)' \in Amounts
         /\ \A d \in TradeDays : Amount(v)'[d] = Turnover(v, d)'
<1>1. \A d \in TradeDays : Turnover(v, d)' \in Nat
  BY DEF FeaturesTypeOK, Turnover
<1>2. QED
  BY <1>1 DEF Amount, Amounts

\* The documented venue of a day is read from the bars up to it.
LEMMA DocumentedReadsBack ==
  ASSUME FeaturesTypeOK, FeaturesTypeOK', NEW d \in TradeDays, SameBars(d)
  PROVE  Documented(d)' = Documented(d)
<1>1. \A v \in FeatureVenues, e \in 1 .. d : Traded(v, e)' <=> Traded(v, e)
  BY DEF SameBars, Traded
<1>2. \A v \in FeatureVenues, e \in 1 .. d : Turnover(v, e)' = Turnover(v, e)
  BY <1>1 DEF SameBars, Turnover
<1>3. d <= d /\ d \in Nat
  BY TradeDaysAreNumbers
<1>4. MonthStart(d) \in TradeDays /\ MonthStart(d) <= d
  BY <1>3, Months
<1>5. ASSUME NEW v \in FeatureVenues, NEW S, \A e \in TradeDays : e \in S => e <= d
      PROVE  SumTurnover(v, S)' = SumTurnover(v, S)
  <2>1. Amount(v) \in Amounts /\ Amount(v)' \in Amounts
    BY AmountsTyped, NextAmounts
  <2>2. \A e \in TradeDays : e \in S => Amount(v)[e] = Amount(v)'[e]
    BY <1>2, <1>5, AmountsTyped, NextAmounts, DaysUpTo
  <2>3. \A e \in TradeDays : Part(Amount(v), S, e) = Part(Amount(v)', S, e)
    BY <2>2 DEF Part
  <2>4. TotalOn(Amount(v), S) = TotalOn(Amount(v)', S)
    BY <2>1, <2>3, TotalsAgree
  <2>5. SumTurnover(v, S) = TotalOn(Amount(v), S)
    BY Zenon DEF SumTurnover, Amount
  <2>6. SumTurnover(v, S)' = TotalOn(Amount(v)', S)
    BY Zenon DEF SumTurnover, Amount
  <2>7. QED
    BY <2>4, <2>5, <2>6
<1> DEFINE month == MonthStart(d)
           window == MonthWindow(month)
<1>6. \A e \in TradeDays : e \in window => e <= d
  <2>1. \A e \in window : e < month
    BY DEF MonthWindow
  <2>2. month \in Int /\ \A e \in TradeDays : e \in Int
    BY <1>4, TradeDaysAreNumbers
  <2> HIDE DEF month, window
  <2>3. month <= d
    BY <1>4 DEF month
  <2>4. QED
    BY <1>3, <2>1, <2>2, <2>3
<1>7. \A e \in TradeDays : e \in month .. d => e <= d
  BY TradeDaysAreNumbers
<1>8. \A v \in FeatureVenues : /\ SumTurnover(v, window)' = SumTurnover(v, window)
                               /\ SumTurnover(v, month .. d)' = SumTurnover(v, month .. d)
  BY <1>5, <1>6, <1>7
<1>9. FirstMonth(month)' <=> FirstMonth(month)
  <2>1. 1 .. month - 1 \subseteq 1 .. d
    <3>1. month \in Nat
      BY <1>4, TradeDaysAreNumbers
    <3>2. month <= d
      BY <1>4
    <3> HIDE DEF month
    <3>3. QED
      BY <1>3, <3>1, <3>2
  <2> HIDE DEF month
  <2>2. \A v \in FeatureVenues, e \in 1 .. month - 1 : Traded(v, e)' <=> Traded(v, e)
    BY <1>1, <2>1
  <2>3. QED
    BY <2>2, Zenon DEF FirstMonth
<1> HIDE DEF month
<1>10. NoTurnover(month)' <=> NoTurnover(month)
  BY <1>8, Zenon DEF NoTurnover
<1>11. "BSE" \in FeatureVenues /\ "NSE" \in FeatureVenues
  BY DEF FeatureVenues
<1>12. ByItself(month)' <=> ByItself(month)
  BY <1>9, <1>10, Zenon DEF ByItself
<1> DEFINE span == IF ByItself(month) THEN month .. d ELSE window
<1>13. span' = span
  BY <1>12
<1>14. SumTurnover("BSE", span)' = SumTurnover("BSE", span)
       /\ SumTurnover("NSE", span)' = SumTurnover("NSE", span)
  BY <1>8, <1>11, <1>12
<1>15. Documented(d) = Larger(SumTurnover("BSE", span), SumTurnover("NSE", span))
  BY DEF Documented, month
<1>16. Documented(d)' = Larger(SumTurnover("BSE", span)', SumTurnover("NSE", span)')
  BY DEF Documented, month
<1> HIDE DEF span
<1>17. QED
  BY <1>14, <1>15, <1>16 DEF Larger

\* So are its figures, with the scales.
LEMMA FiguresReadBack ==
  ASSUME NEW d \in TradeDays, SameBars(d), SameScales(d), NEW v \in FeatureVenues
  PROVE  FiguresRead(v, d)' = FiguresRead(v, d)
<1> DEFINE read == {k \in 1 .. d : Traded(v, k)}
           figure(e) == [day |-> e, close |-> series[v][e].close,
                         turnover |-> series[v][e].turnover, shares |-> series[v][e].shares,
                         scale |-> Factor(e) - Factor(d)]
<1>1. \A e \in 1 .. d : (Traded(v, e)' <=> Traded(v, e)) /\ series'[v][e] = series[v][e]
  BY DEF SameBars, Traded
<1>2. read' = read /\ read \subseteq 1 .. d
  BY <1>1
<1>3. \A e \in 1 .. d : figure(e)' = figure(e)
  BY <1>1 DEF SameScales
<1>4. FiguresRead(v, d) = {figure(e) : e \in read}
  BY DEF FiguresRead
<1>5. FiguresRead(v, d)' = {figure(e)' : e \in read'}
  BY DEF FiguresRead
<1> HIDE DEF figure, read
<1>6. {figure(e)' : e \in read'} = {figure(e) : e \in read}
  BY <1>2, <1>3
<1>7. QED
  BY <1>4, <1>5, <1>6

\* A change of the action of a later day moves every scale up to a day alike.
LEMMA LaterActionsMoveAll ==
  ASSUME NEW d \in TradeDays, NEW x \in TradeDays, d < x, NEW k,
         FeaturesTypeOK, splits' = [splits EXCEPT ![x] = k]
  PROVE  SameScales(d)
<1>1. splits \in [TradeDays -> KnownDates]
  BY DEF FeaturesTypeOK
<1>2. d \in Int /\ x \in Int /\ \A e \in 1 .. d : e < x /\ e \in TradeDays
  BY TradeDaysAreNumbers, DaysUpTo
<1> DEFINE Others(e) == {y \in TradeDays \ {x} : splits[y] # Unknown /\ e < y}
           Before == IF splits[x] # Unknown THEN 1 ELSE 0
           After == IF k # Unknown THEN 1 ELSE 0
<1>3. ASSUME NEW e \in 1 .. d
      PROVE  /\ Cardinality(Others(e)) \in Nat
             /\ Factor(e) = Cardinality(Others(e)) + Before
             /\ Factor(e)' = Cardinality(Others(e)) + After
  <2> DEFINE Ahead(on) == {y \in TradeDays : on[y] # Unknown /\ e < y}
  <2>1. /\ Ahead(splits) = IF splits[x] # Unknown THEN Others(e) \union {x} ELSE Others(e)
        /\ Ahead(splits') = IF k # Unknown THEN Others(e) \union {x} ELSE Others(e)
    BY <1>1, <1>2
  <2>2. x \notin Others(e)
    OBVIOUS
  <2>3. IsFiniteSet(Others(e))
    <3>1. IsFiniteSet(TradeDays)
      BY TradeDaysAreNumbers, FS_Interval DEF TradeDays
    <3>2. Others(e) \subseteq TradeDays
      OBVIOUS
    <3> HIDE DEF Others
    <3>3. QED
      BY <3>1, <3>2, FS_Subset
  <2>4. Factor(e) = Cardinality(Ahead(splits)) /\ Factor(e)' = Cardinality(Ahead(splits'))
    BY DEF Factor
  <2> HIDE DEF Ahead, Others
  <2>5. Cardinality(Others(e) \union {x}) = Cardinality(Others(e)) + 1
    BY <2>2, <2>3, FS_AddElement
  <2>6. Cardinality(Others(e)) \in Nat
    BY <2>3, FS_CardinalityType
  <2>7. QED
    BY <2>1, <2>4, <2>5, <2>6
<1> HIDE DEF Others
<1>4. ASSUME NEW e \in 1 .. d
      PROVE  (Factor(e) - Factor(d))' = Factor(e) - Factor(d)
  <2>1. d \in 1 .. d
    BY DaysUpTo
  <2> DEFINE m == Cardinality(Others(e))
             n == Cardinality(Others(d))
  <2>2. m \in Nat /\ n \in Nat /\ Before \in Nat /\ After \in Nat
    BY <1>3, <2>1
  <2>3. /\ Factor(e) = m + Before /\ Factor(e)' = m + After
        /\ Factor(d) = n + Before /\ Factor(d)' = n + After
    BY <1>3, <2>1
  <2> HIDE DEF m, n, Before, After
  <2>4. Factor(e)' - Factor(d)' = Factor(e) - Factor(d)
    BY ONLY <2>2, <2>3
  <2>5. QED
    BY <2>4
<1>5. QED
  BY <1>4 DEF SameScales

\* A documented venue is a venue.
LEMMA DocumentedIsAVenue == \A d : Documented(d) \in FeatureVenues
  BY DEF Documented, Larger, FeatureVenues

\* A bar left as it is keeps its date.
LEMMA BarsKnownAsBefore ==
  ASSUME NEW d \in TradeDays, SameBars(d), NEW v \in FeatureVenues, NEW e \in 1 .. d
  PROVE  BarKnown(v, e)' = BarKnown(v, e)
  BY DEF SameBars, BarKnown, Traded

\* What a row reads is what it read, where no fact up to its day has changed.
LEMMA RowReadsBack ==
  ASSUME FeaturesTypeOK, FeaturesTypeOK', NEW d \in TradeDays, SameBars(d), SameScales(d),
         \A x \in 1 .. d : splits'[x] = splits[x],
         verdicts'[Documented(d)][d] = verdicts[Documented(d)][d]
  PROVE  RowOf(d)' = RowOf(d)
<1>1. Documented(d)' = Documented(d)
  BY DocumentedReadsBack
<1> DEFINE v == Documented(d)
<1>2. v \in FeatureVenues
  BY DocumentedIsAVenue
<1>3. d \in 1 .. d
  BY DaysUpTo
<1>4. \A u \in FeatureVenues, e \in 1 .. d : series'[u][e] = series[u][e]
  BY DEF SameBars
<1>5. \A u \in FeatureVenues : FiguresRead(u, d)' = FiguresRead(u, d)
  BY FiguresReadBack
<1>6. Gap(d)' = Gap(d)
  <2> DEFINE closes == {series[u][d].close : u \in FeatureVenues}
             Between(S) == IF Unpriced \in S THEN Blank
                           ELSE LatestIn(S) - (CHOOSE c \in S : \A e \in S : c <= e)
  <2>1. closes' = closes
    BY <1>3, <1>4
  <2>2. Gap(d) = Between(closes)
    BY DEF Gap
  <2>3. Gap(d)' = Between(closes')
    BY DEF Gap
  <2> HIDE DEF closes, Between
  <2>4. QED
    BY <2>1, <2>2, <2>3
<1>7. \A u \in FeatureVenues : Turnover(u, d)' = Turnover(u, d)
  BY <1>3, <1>4 DEF Turnover, Traded
<1>8. IsDiverging(d)' <=> IsDiverging(d)
  BY <1>6, <1>7 DEF IsDiverging
<1>9. LatestBarKnown(d)' = LatestBarKnown(d)
  <2> DEFINE dates == {BarKnown(u, e) : u \in FeatureVenues, e \in 1 .. d}
  <2>1. dates' = dates
    <3>1. \A u \in FeatureVenues, e \in 1 .. d : BarKnown(u, e)' = BarKnown(u, e)
      BY BarsKnownAsBefore
    <3>2. QED
      BY <3>1
  <2>2. LatestBarKnown(d) = LatestIn(dates) /\ LatestBarKnown(d)' = LatestIn(dates')
    BY DEF LatestBarKnown
  <2> HIDE DEF dates
  <2>3. QED
    BY <2>1, <2>2
<1>10. LatestActionKnown(d)' = LatestActionKnown(d)
  <2>1. {splits[x] : x \in 1 .. d}' = {splits[x] : x \in 1 .. d}
    OBVIOUS
  <2>2. QED
    BY <2>1, Zenon DEF LatestActionKnown
<1>11. Known(v, d)' = Known(v, d)
  BY <1>1, <1>9, <1>10 DEF Known
<1>12. FiguresRead(v, d)' = FiguresRead(v, d)
  <2> DEFINE u == Documented(d)
  <2>1. PICK w \in FeatureVenues : w = Documented(d)
    BY <1>2
  <2>2. Documented(d)' = w
    BY <1>1, <2>1
  <2>3. FiguresRead(w, d)' = FiguresRead(w, d)
    BY <1>5
  <2>4. FiguresRead(v, d)' = FiguresRead(w, d)'
    BY <2>2 DEF FiguresRead, Traded
  <2>5. QED
    BY <2>1, <2>3, <2>4
<1>13. RowOf(d) = [venue |-> v, figures |-> FiguresRead(v, d), spread |-> Gap(d),
                   diverging |-> IsDiverging(d), complete |-> verdicts[v][d].complete,
                   asOf |-> Known(v, d)]
  BY DEF RowOf
<1>14. RowOf(d)' = [venue |-> v', figures |-> FiguresRead(v, d)', spread |-> Gap(d)',
                    diverging |-> IsDiverging(d)', complete |-> verdicts'[v'][d].complete,
                    asOf |-> Known(v, d)']
  BY DEF RowOf
<1>15. v' = v /\ verdicts'[v'][d].complete = verdicts[v][d].complete
  BY <1>1
<1>16. IsDiverging(d)' = IsDiverging(d)
  <2>1. IsDiverging(d) \in BOOLEAN /\ IsDiverging(d)' \in BOOLEAN
    BY DEF IsDiverging
  <2>2. QED
    BY <1>8, <2>1
<1> HIDE DEF v
<1>17. QED
  BY <1>6, <1>11, <1>12, <1>13, <1>14, <1>15, <1>16, Zenon

\* The latest of some dates is one of them and no earlier than any.
LEMMA LatestOfDates ==
  ASSUME NEW S, S \subseteq KnownDates, S # {}
  PROVE  LatestIn(S) \in S /\ \A x \in S : x <= LatestIn(S)
<1>1. LastKnownDay \in Nat /\ KnownDates = 0 .. LastKnownDay
  BY FeaturesAssumption DEF KnownDates, Unknown
<1>2. \E x \in S : \A y \in S : y <= x
  BY <1>1, GreatestUpTo
<1>3. QED
  BY <1>2, Zenon DEF LatestIn

\* A bar that stands carries the later of its dates.
LEMMA BarsHaveDates ==
  ASSUME FeaturesTypeOK, NEW v \in FeatureVenues, NEW d \in TradeDays
  PROVE  /\ BarKnown(v, d) \in KnownDates
         /\ Traded(v, d) => /\ series[v][d].known <= BarKnown(v, d)
                            /\ series[v][d].delivered <= BarKnown(v, d)
<1> DEFINE S == {series[v][d].known, series[v][d].delivered}
<1>1. S \subseteq KnownDates /\ S # {} /\ Unknown \in KnownDates
  BY TodayIsADate DEF FeaturesTypeOK
<1>2. BarKnown(v, d) = IF Traded(v, d) THEN LatestIn(S) ELSE Unknown
  BY DEF BarKnown
<1>3. series[v][d].known \in S /\ series[v][d].delivered \in S
  OBVIOUS
<1> HIDE DEF S
<1>4. LatestIn(S) \in S /\ \A x \in S : x <= LatestIn(S)
  BY <1>1, LatestOfDates
<1>5. QED
  BY <1>1, <1>2, <1>3, <1>4

\* A row is dated no earlier than anything it reads was known.
LEMMA DatedByAll ==
  ASSUME FeaturesTypeOK, NEW d \in TradeDays, NEW w \in FeatureVenues
  PROVE  /\ \A v \in FeatureVenues, e \in 1 .. d : BarKnown(v, e) <= Known(w, d)
         /\ \A x \in 1 .. d : splits[x] <= Known(w, d)
         /\ verdicts[w][d].known <= Known(w, d)
         /\ Known(w, d) \in KnownDates
<1> DEFINE B == {BarKnown(v, e) : v \in FeatureVenues, e \in 1 .. d}
           A == {splits[x] : x \in 1 .. d}
           K == {LatestBarKnown(d), LatestActionKnown(d), verdicts[w][d].known}
<1>1. 1 .. d \subseteq TradeDays /\ d \in 1 .. d
  BY DaysUpTo
<1>2. B \subseteq KnownDates /\ A \subseteq KnownDates /\ verdicts[w][d].known \in KnownDates
  BY <1>1, BarsHaveDates DEF FeaturesTypeOK
<1>3. B # {} /\ A # {}
  <2>1. "BSE" \in FeatureVenues
    BY DEF FeatureVenues
  <2>2. BarKnown("BSE", d) \in B /\ splits[d] \in A
    BY <1>1, <2>1
  <2> HIDE DEF A, B
  <2>3. QED
    BY <2>2
<1>4. /\ \A v \in FeatureVenues, e \in 1 .. d : BarKnown(v, e) \in B
      /\ \A x \in 1 .. d : splits[x] \in A
  OBVIOUS
<1>5. LatestBarKnown(d) = LatestIn(B) /\ LatestActionKnown(d) = LatestIn(A) /\ Known(w, d) = LatestIn(K)
  BY DEF LatestBarKnown, LatestActionKnown, Known
<1> HIDE DEF A, B
<1>6. /\ LatestIn(B) \in B /\ \A x \in B : x <= LatestIn(B)
      /\ LatestIn(A) \in A /\ \A x \in A : x <= LatestIn(A)
  BY <1>2, <1>3, LatestOfDates
<1>7. K \subseteq KnownDates
  BY <1>2, <1>5, <1>6
<1>8. /\ LatestBarKnown(d) \in K /\ LatestActionKnown(d) \in K /\ verdicts[w][d].known \in K
      /\ K # {}
  OBVIOUS
<1> HIDE DEF K
<1>9. Known(w, d) \in K /\ \A x \in K : x <= Known(w, d)
  BY <1>5, <1>7, <1>8, LatestOfDates
<1>10. KnownDates \subseteq Int
  BY FeaturesAssumption DEF KnownDates, Unknown
<1>11. \A x, y, z \in KnownDates : x <= y /\ y <= z => x <= z
  BY <1>10
<1>12. ASSUME NEW v \in FeatureVenues, NEW e \in 1 .. d
       PROVE  BarKnown(v, e) <= Known(w, d)
  <2>1. BarKnown(v, e) \in B
    BY <1>4
  <2>2. BarKnown(v, e) <= LatestBarKnown(d) /\ LatestBarKnown(d) <= Known(w, d)
    BY <1>5, <1>6, <1>8, <1>9, <2>1
  <2>3. {BarKnown(v, e), LatestBarKnown(d), Known(w, d)} \subseteq KnownDates
    BY <1>2, <1>7, <1>8, <1>9, <2>1
  <2>4. QED
    BY <1>11, <2>2, <2>3
<1>13. ASSUME NEW x \in 1 .. d
       PROVE  splits[x] <= Known(w, d)
  <2>1. splits[x] \in A
    BY <1>4
  <2>2. splits[x] <= LatestActionKnown(d) /\ LatestActionKnown(d) <= Known(w, d)
    BY <1>5, <1>6, <1>8, <1>9, <2>1
  <2>3. {splits[x], LatestActionKnown(d), Known(w, d)} \subseteq KnownDates
    BY <1>2, <1>7, <1>8, <1>9, <2>1
  <2>4. QED
    BY <1>11, <2>2, <2>3
<1>14. QED
  BY <1>7, <1>8, <1>9, <1>12, <1>13

-----------------------------------------------------------------------------
(* The steps keep the rows standing.                                       *)

\* No row is stored to begin with.
LEMMA RowsInitInvariant == FeaturesInit => RowsIInv
<1>1. SUFFICES ASSUME FeaturesInit PROVE RowsIInv
  OBVIOUS
<1>2. FeaturesIInv
  BY <1>1, FeaturesInitInvariant
<1>3. RowsStand
  BY <1>1 DEF FeaturesInit, RowsStand
<1>4. QED
  BY <1>2, <1>3 DEF RowsIInv

\* Dates compare.
LEMMA DatesCompare ==
  ASSUME FeaturesTypeOK
  PROVE  /\ now \in Int /\ computedOn \in Int /\ computedOn <= now
         /\ \A v \in FeatureVenues, d \in TradeDays : BarKnown(v, d) \in Int
         /\ \A v \in FeatureVenues, d \in TradeDays : verdicts[v][d].known \in Int
         /\ \A d \in TradeDays : splits[d] \in Int
<1>1. KnownDates \subseteq Int
  BY FeaturesAssumption DEF KnownDates, Unknown
<1>2. now \in Int /\ computedOn \in Int /\ computedOn <= now
  BY FeaturesAssumption DEF FeaturesTypeOK, Unknown
<1>3. QED
  BY <1>1, <1>2, BarsHaveDates DEF FeaturesTypeOK

\* Another bar in a bar's place.
LEMMA BarKeepsRows ==
  ASSUME RowsIInv, FeaturesTypeOK', NEW v \in FeatureVenues, NEW k \in TradeDays, BarStep(v, k)
  PROVE  RowsStand'
<1>1. FeaturesTypeOK /\ RowsStand
  BY DEF RowsIInv, FeaturesIInv
<1>2. /\ rows' = rows /\ computedOn' = computedOn /\ now' = now
      /\ splits' = splits /\ verdicts' = verdicts
  BY <1>1, BarSteps DEF Fact
<1>3. PICK b \in StandingBars :
        /\ series' = [series EXCEPT ![v][k] = b]
        /\ \/ undated' = undated \union {k}
           \/ undated' = undated /\ b.known # Unknown /\ (b.known = now \/ b.delivered = now)
  BY <1>1, BarSteps
<1>4. /\ series'[v][k] = b
      /\ \A u \in FeatureVenues, e \in TradeDays : <<u, e>> # <<v, k>> => series'[u][e] = series[u][e]
  BY <1>1, <1>3 DEF FeaturesTypeOK
<1>5. k \in Int /\ now \in Int /\ computedOn \in Int /\ computedOn <= now
  BY <1>1, DatesCompare, TradeDaysAreNumbers
<1>6. b.known # Unknown /\ (b.known = now \/ b.delivered = now)
        => now <= BarKnown(v, k)' /\ BarKnown(v, k)' \in Int
  <2> DEFINE S == {b.known, b.delivered}
  <2>1. SUFFICES ASSUME b.known # Unknown, b.known = now \/ b.delivered = now
                 PROVE  now <= BarKnown(v, k)' /\ BarKnown(v, k)' \in Int
    OBVIOUS
  <2>2. BarKnown(v, k)' = LatestIn(S)
    BY <1>4, <2>1 DEF BarKnown, Traded
  <2>3. S \subseteq KnownDates /\ S # {} /\ now \in S
    BY <2>1 DEF StandingBars
  <2> HIDE DEF S
  <2>4. LatestIn(S) \in KnownDates /\ now <= LatestIn(S)
    BY <2>3, LatestOfDates
  <2>5. KnownDates \subseteq Int
    BY FeaturesAssumption DEF KnownDates, Unknown
  <2>6. QED
    BY <2>2, <2>4, <2>5
<1>7. ASSUME NEW d \in DOMAIN rows, ReadsNothingNew(d)'
      PROVE  d \in TradeDays /\ d < k
  <2>1. d \in TradeDays /\ d \in Int
    BY <1>1, TradeDaysAreNumbers DEF FeaturesTypeOK
  <2>2. CASE undated' = undated \union {k}
    BY <1>7, <2>1, <2>2 DEF ReadsNothingNew
  <2>3. CASE b.known # Unknown /\ (b.known = now \/ b.delivered = now)
    <3>1. SUFFICES ASSUME k \in 1 .. d PROVE FALSE
      BY <1>5, <2>1, DaysUpTo
    <3>2. BarKnown(v, k)' < computedOn'
      BY <1>7, <3>1 DEF ReadsNothingNew
    <3>3. QED
      BY <1>2, <1>5, <1>6, <2>3, <3>2
  <2>4. QED
    BY <1>3, <2>1, <2>2, <2>3
<1>8. ASSUME NEW d \in DOMAIN rows, ReadsNothingNew(d)'
      PROVE  ReadsNothingNew(d) /\ RowOf(d)' = RowOf(d)
  <2>1. d \in TradeDays /\ d < k
    BY <1>7, <1>8
  <2>2. \A e \in 1 .. d : e # k /\ e \in TradeDays
    <3>1. d \in Int /\ 1 .. d \subseteq TradeDays /\ \A e \in 1 .. d : e \in Int /\ e <= d
      BY <2>1, DaysUpTo, TradeDaysAreNumbers
    <3>2. QED
      BY <1>5, <2>1, <3>1
  <2>3. SameBars(d)
    BY <1>4, <2>2 DEF SameBars
  <2>4. SameScales(d)
    BY <1>2 DEF SameScales, Factor
  <2>5. Documented(d)' = Documented(d)
    BY <1>1, <2>1, <2>3, DocumentedReadsBack
  <2>6. RowOf(d)' = RowOf(d)
    BY <1>1, <1>2, <2>1, <2>3, <2>4, RowReadsBack
  <2>7. undated \subseteq undated'
    BY <1>3
  <2>8. \A u \in FeatureVenues, e \in 1 .. d : BarKnown(u, e)' = BarKnown(u, e)
    BY <2>1, <2>3, BarsKnownAsBefore
  <2>9. ReadsNothingNew(d)
    BY <1>2, <1>8, <2>5, <2>7, <2>8 DEF ReadsNothingNew
  <2>10. QED
    BY <2>6, <2>9
<1>9. \A d \in DOMAIN rows' : ReadsNothingNew(d)' => rows'[d] = RowOf(d)'
  BY <1>1, <1>2, <1>8 DEF RowsStand
<1>10. QED
  BY <1>9 DEF RowsStand

\* Another date for the action of an ex-date.
LEMMA ActionKeepsRows ==
  ASSUME RowsIInv, FeaturesTypeOK', NEW x \in TradeDays, ActionStep(x)
  PROVE  RowsStand'
<1>1. FeaturesTypeOK /\ RowsStand
  BY DEF RowsIInv, FeaturesIInv
<1>2. /\ rows' = rows /\ computedOn' = computedOn /\ series' = series /\ verdicts' = verdicts
      /\ now' = now
  BY <1>1, ActionSteps DEF Fact
<1>3. PICK k \in KnownDates :
        /\ splits' = [splits EXCEPT ![x] = k]
        /\ undated' = undated \union {x} \/ (undated' = undated /\ k = now)
  BY <1>1, ActionSteps
<1>4. x \in Int /\ now \in Int /\ computedOn \in Int /\ computedOn <= now
      /\ splits \in [TradeDays -> KnownDates]
  BY <1>1, DatesCompare, TradeDaysAreNumbers DEF FeaturesTypeOK
<1>5. ASSUME NEW d \in DOMAIN rows, ReadsNothingNew(d)'
      PROVE  ReadsNothingNew(d) /\ RowOf(d)' = RowOf(d)
  <2>1. d \in TradeDays /\ d \in Int
    BY <1>1, TradeDaysAreNumbers DEF FeaturesTypeOK
  <2>2. d < x
    <3>1. CASE undated' = undated \union {x}
      BY <1>5, <3>1 DEF ReadsNothingNew
    <3>2. CASE k = now
      <4>1. SUFFICES ASSUME x \in 1 .. d PROVE FALSE
        BY <1>4, <2>1, DaysUpTo
      <4>2. splits'[x] < computedOn' /\ splits'[x] = now
        BY <1>3, <1>4, <1>5, <3>2, <4>1 DEF ReadsNothingNew
      <4>3. QED
        BY <1>2, <1>4, <4>2
    <3>3. QED
      BY <1>3, <3>1, <3>2
  <2>3. SameBars(d)
    BY <1>2 DEF SameBars
  <2>4. SameScales(d)
    BY <1>1, <1>3, <2>1, <2>2, LaterActionsMoveAll
  <2>5. \A y \in 1 .. d : splits'[y] = splits[y]
    <3>1. \A y \in 1 .. d : y \in TradeDays /\ y \in Int /\ y <= d
      BY <2>1, DaysUpTo
    <3>2. \A y \in 1 .. d : y # x
      BY <1>4, <2>1, <2>2, <3>1
    <3>3. QED
      BY <1>3, <1>4, <3>1, <3>2
  <2>6. Documented(d)' = Documented(d)
    BY <1>1, <2>1, <2>3, DocumentedReadsBack
  <2>7. RowOf(d)' = RowOf(d)
    BY <1>1, <1>2, <2>1, <2>3, <2>4, <2>5, RowReadsBack
  <2>8. undated \subseteq undated'
    BY <1>3
  <2>9. \A u \in FeatureVenues, e \in 1 .. d : BarKnown(u, e)' = BarKnown(u, e)
    BY <2>1, <2>3, BarsKnownAsBefore
  <2>10. ReadsNothingNew(d)
    BY <1>2, <1>5, <2>5, <2>6, <2>8, <2>9 DEF ReadsNothingNew
  <2>11. QED
    BY <2>7, <2>10
<1>6. \A d \in DOMAIN rows' : ReadsNothingNew(d)' => rows'[d] = RowOf(d)'
  BY <1>1, <1>2, <1>5 DEF RowsStand
<1>7. QED
  BY <1>6 DEF RowsStand

\* A verdict first drawn or drawn again.
LEMMA VerdictKeepsRows ==
  ASSUME RowsIInv, FeaturesTypeOK', NEW v \in FeatureVenues, NEW k \in TradeDays,
         NEW complete \in BOOLEAN, JudgeDay(v, k, complete)
  PROVE  RowsStand'
<1>1. /\ rows' = rows /\ computedOn' = computedOn /\ series' = series /\ splits' = splits
      /\ FeaturesTypeOK /\ RowsStand
  BY DEF JudgeDay, Fact, RowsIInv, FeaturesIInv
<1>2. verdicts \in [FeatureVenues -> [TradeDays -> [complete : BOOLEAN, known : KnownDates]]]
  BY <1>1 DEF FeaturesTypeOK
<1>3. PICK j : /\ verdicts' = [verdicts EXCEPT ![v][k] = j]
               /\ j.known = IF verdicts[v][k].known = Unknown THEN k ELSE now
  <2> DEFINE known == IF verdicts[v][k].known = Unknown THEN k ELSE now
             given == [complete |-> complete, known |-> known]
  <2>1. verdicts' = [verdicts EXCEPT ![v][k] = given]
    BY <1>2, Zenon DEF JudgeDay
  <2>2. given.known = known
    OBVIOUS
  <2> HIDE DEF given
  <2>3. QED
    BY <2>1, <2>2
<1>4. /\ verdicts'[v][k] = j
      /\ \A u \in FeatureVenues, e \in TradeDays : <<u, e>> # <<v, k>> => verdicts'[u][e] = verdicts[u][e]
  BY <1>2, <1>3
<1>5. undated' = IF verdicts[v][k].known = Unknown THEN undated \union {k} ELSE undated
  BY DEF JudgeDay, Undated
<1>6. k \in Int /\ now \in Int /\ computedOn \in Int /\ computedOn <= now
  BY <1>1, DatesCompare, TradeDaysAreNumbers
<1>7. ASSUME NEW d \in DOMAIN rows, ReadsNothingNew(d)'
      PROVE  ReadsNothingNew(d) /\ RowOf(d)' = RowOf(d)
  <2>1. d \in TradeDays /\ d \in Int
    BY <1>1, TradeDaysAreNumbers DEF FeaturesTypeOK
  <2>2. SameBars(d) /\ SameScales(d)
    BY <1>1 DEF SameBars, SameScales, Factor
  <2>3. Documented(d)' = Documented(d) /\ Documented(d) \in FeatureVenues
    BY <1>1, <2>1, <2>2, DocumentedReadsBack, DocumentedIsAVenue
  <2>4. <<Documented(d), d>> # <<v, k>>
    <3>1. SUFFICES ASSUME Documented(d) = v, d = k PROVE FALSE
      OBVIOUS
    <3>2. CASE verdicts[v][k].known = Unknown
      <4>1. k \in undated'
        BY <1>5, <3>2
      <4>2. d < k
        BY <1>7, <4>1 DEF ReadsNothingNew
      <4>3. QED
        BY <2>1, <3>1, <4>2
    <3>3. CASE verdicts[v][k].known # Unknown
      <4>1. verdicts'[Documented(d)'][d].known < computedOn'
        BY <1>7 DEF ReadsNothingNew
      <4>2. now < computedOn
        BY <1>1, <1>3, <1>4, <2>3, <3>1, <3>3, <4>1
      <4>3. QED
        BY <1>6, <4>2
    <3>4. QED
      BY <3>2, <3>3
  <2>5. verdicts'[Documented(d)][d] = verdicts[Documented(d)][d]
    BY <1>4, <2>1, <2>3, <2>4
  <2>6. RowOf(d)' = RowOf(d)
    BY <1>1, <2>1, <2>2, <2>5, RowReadsBack
  <2>7. undated \subseteq undated'
    BY <1>5
  <2>8. \A u \in FeatureVenues, e \in 1 .. d : BarKnown(u, e)' = BarKnown(u, e)
    BY <2>1, <2>2, BarsKnownAsBefore
  <2>9. ReadsNothingNew(d)
    BY <1>1, <1>7, <2>3, <2>5, <2>7, <2>8 DEF ReadsNothingNew
  <2>10. QED
    BY <2>6, <2>9
<1>8. RowsStand'
  <2>1. \A d \in DOMAIN rows' : ReadsNothingNew(d)' => rows'[d] = RowOf(d)'
    BY <1>1, <1>7 DEF RowsStand
  <2>2. QED
    BY <2>1 DEF RowsStand
<1>9. QED
  BY <1>8

\* A step that changes no fact and no row.
LEMMA FactsFrozen ==
  ASSUME RowsIInv, FeaturesTypeOK',
         UNCHANGED <<series, splits, verdicts, rows, computedOn, undated>>
  PROVE  RowsStand'
<1>1. ASSUME NEW d \in DOMAIN rows, ReadsNothingNew(d)'
      PROVE  ReadsNothingNew(d) /\ RowOf(d)' = RowOf(d)
  <2>1. d \in TradeDays /\ FeaturesTypeOK
    BY DEF RowsIInv, FeaturesIInv, FeaturesTypeOK
  <2>2. SameBars(d) /\ SameScales(d)
    BY DEF SameBars, SameScales, Factor
  <2>3. Documented(d)' = Documented(d)
    BY <2>1, <2>2, DocumentedReadsBack
  <2>4. RowOf(d)' = RowOf(d)
    BY <2>1, <2>2, RowReadsBack
  <2>5. \A u \in FeatureVenues, e \in 1 .. d : BarKnown(u, e)' = BarKnown(u, e)
    BY <2>1, <2>2, BarsKnownAsBefore
  <2>6. ReadsNothingNew(d)
    BY <1>1, <2>3, <2>5 DEF ReadsNothingNew
  <2>7. QED
    BY <2>4, <2>6
<1>2. RowsStand'
  <2>1. \A d \in DOMAIN rows' : ReadsNothingNew(d)' => rows'[d] = RowOf(d)'
    BY <1>1 DEF RowsIInv, RowsStand
  <2>2. QED
    BY <2>1 DEF RowsStand
<1>3. QED
  BY <1>2

\* What is stored is the row of each day.
LEMMA StoredRows ==
  ASSUME FeaturesIInv, StoreRows, ~ RefusedDay(pass.designated)
  PROVE  /\ rows' = Rows(pass.designated) /\ computedOn' = now /\ undated' = {}
         /\ \A d \in DOMAIN rows' : d \in TradeDays /\ rows'[d] = RowOf(d)
<1>1. rows' = Rows(pass.designated) /\ computedOn' = now /\ undated' = {}
  BY DEF StoreRows
<1>2. pass.day = LastTradeDay + 1 /\ pass.day # 0
  BY TradeDaysAreNumbers DEF StoreRows
<1>3. pass.designated = [d \in GoneBy(pass.day) |-> Documented(d)]
  BY <1>2 DEF FeaturesIInv, Passing, Computing, PassInOrder
<1> DEFINE venue == pass.designated
<1>4. ASSUME NEW d \in DOMAIN Rows(venue)
      PROVE  d \in TradeDays /\ Rows(venue)[d] = RowOf(d)
  <2>1. d \in RowDays(venue) /\ d \in DOMAIN venue
    BY DEF Rows, RowDays
  <2>2. d \in TradeDays /\ venue[d] = Documented(d)
    BY <1>3, <2>1 DEF GoneBy
  <2>3. Rows(venue)[d] = [venue |-> venue[d], figures |-> FiguresRead(venue[d], d),
                          spread |-> Gap(d), diverging |-> IsDiverging(d),
                          complete |-> verdicts[venue[d]][d].complete, asOf |-> Known(venue[d], d)]
    BY <2>1 DEF Rows
  <2>4. QED
    BY <2>2, <2>3 DEF RowOf
<1>5. QED
  BY <1>1, <1>4

\* The rows stored stand.
LEMMA StoreKeepsRows ==
  ASSUME RowsIInv, FeaturesTypeOK', StoreRows
  PROVE  RowsStand'
<1>1. CASE RefusedDay(pass.designated)
  BY <1>1, FactsFrozen DEF StoreRows
<1>2. CASE ~ RefusedDay(pass.designated)
  <2>1. /\ computedOn' = now /\ undated' = {}
        /\ \A d \in DOMAIN rows' : d \in TradeDays /\ rows'[d] = RowOf(d)
    BY <1>2, StoredRows DEF RowsIInv
  <2>2. series' = series /\ splits' = splits /\ verdicts' = verdicts
    BY DEF StoreRows
  <2>3. ASSUME NEW d \in DOMAIN rows'
        PROVE  rows'[d] = RowOf(d)'
    <3>1. FeaturesTypeOK /\ d \in TradeDays
      BY <2>1 DEF RowsIInv, FeaturesIInv
    <3>2. SameBars(d) /\ SameScales(d)
      BY <2>2 DEF SameBars, SameScales, Factor
    <3>3. RowOf(d)' = RowOf(d)
      BY <2>2, <3>1, <3>2, RowReadsBack
    <3>4. QED
      BY <2>1, <3>3
  <2>4. QED
    BY <2>3 DEF RowsStand
<1>3. QED
  BY <1>1, <1>2

\* The rows stand while facts arrive and computations store them anew.
LEMMA RowsNextInvariant == RowsIInv /\ [FeaturesNext]_featureVars => RowsIInv'
<1>1. SUFFICES ASSUME RowsIInv, [FeaturesNext]_featureVars PROVE RowsIInv'
  OBVIOUS
<1>2. FeaturesIInv' /\ FeaturesTypeOK'
  <2>1. FeaturesIInv'
    BY <1>1, FeaturesNextInvariant DEF RowsIInv
  <2>2. QED
    BY <2>1 DEF FeaturesIInv
<1>3. SUFFICES RowsStand'
  BY <1>2 DEF RowsIInv
<1>4. CASE \E v \in FeatureVenues, d \in TradeDays :
             \/ BarStep(v, d)
             \/ \E complete \in BOOLEAN : JudgeDay(v, d, complete)
  BY <1>1, <1>2, <1>4, BarKeepsRows, VerdictKeepsRows
<1>5. CASE \E x \in TradeDays : ActionStep(x)
  BY <1>1, <1>2, <1>5, ActionKeepsRows
<1>6. CASE StoreRows
  BY <1>1, <1>2, <1>6, StoreKeepsRows
<1>7. CASE PassDay \/ StartComputation \/ Designate \/ UNCHANGED featureVars
  <2>1. UNCHANGED <<series, splits, verdicts, rows, computedOn, undated>>
    BY <1>7 DEF PassDay, StartComputation, Designate, featureVars
  <2>2. QED
    BY <1>1, <1>2, <2>1, FactsFrozen
<1>8. QED
  BY <1>1, <1>4, <1>5, <1>6, <1>7 DEF FeaturesNext, BarStep, ActionStep

\* A row computed again changes only by what was learned since, and is dated by it where
\* that is dated.
LEMMA StoringDates ==
  ASSUME RowsIInv, StoreRows, NEW d \in DOMAIN rows \intersect DOMAIN rows'
  PROVE  \/ rows'[d] = rows[d]
         \/ rows'[d].asOf >= computedOn
         \/ \E e \in undated : e <= d
<1>1. FeaturesTypeOK /\ RowsStand /\ FeaturesIInv
  BY DEF RowsIInv, FeaturesIInv
<1>2. CASE RefusedDay(pass.designated)
  BY <1>2 DEF StoreRows
<1>3. CASE ~ RefusedDay(pass.designated)
  <2>1. d \in TradeDays /\ rows'[d] = RowOf(d)
    BY <1>1, <1>3, StoredRows
  <2>2. CASE ReadsNothingNew(d)
    BY <1>1, <2>1, <2>2 DEF RowsStand
  <2>3. CASE ~ ReadsNothingNew(d)
    <3> DEFINE w == Documented(d)
    <3>1. w \in FeatureVenues
      BY DocumentedIsAVenue
    <3> HIDE DEF w
    <3>2. /\ \A v \in FeatureVenues, e \in 1 .. d : BarKnown(v, e) <= Known(w, d)
          /\ \A x \in 1 .. d : splits[x] <= Known(w, d)
          /\ verdicts[w][d].known <= Known(w, d)
          /\ Known(w, d) \in KnownDates
      BY <1>1, <2>1, <3>1, DatedByAll
    <3>3. rows'[d].asOf = Known(w, d)
      BY <2>1 DEF RowOf, w
    <3>4. Known(w, d) \in Int /\ computedOn \in Int
      BY <1>1, <3>2, DatesCompare, FeaturesAssumption DEF KnownDates, Unknown
    <3>5. 1 .. d \subseteq TradeDays /\ d \in Int /\ \A e \in TradeDays : e <= d => e \in 1 .. d
      BY <2>1, DaysUpTo, TradeDaysAreNumbers
    <3>6. \A k \in Int : ~ (k < computedOn) /\ k <= Known(w, d) => Known(w, d) >= computedOn
      BY ONLY <3>4
    <3>7. CASE \E v \in FeatureVenues, e \in 1 .. d : ~ (BarKnown(v, e) < computedOn)
      BY <1>1, <3>2, <3>3, <3>5, <3>6, <3>7, DatesCompare
    <3>8. CASE \E x \in 1 .. d : ~ (splits[x] < computedOn)
      BY <1>1, <3>2, <3>3, <3>5, <3>6, <3>8, DatesCompare
    <3>9. CASE ~ (verdicts[w][d].known < computedOn)
      BY <1>1, <2>1, <3>1, <3>2, <3>3, <3>6, <3>9, DatesCompare
    <3>10. CASE \E e \in undated : ~ (d < e)
      <4>1. PICK e \in undated : ~ (d < e)
        BY <3>10
      <4>2. e \in TradeDays /\ e \in Int
        BY <1>1, TradeDaysAreNumbers DEF FeaturesTypeOK
      <4>3. e <= d
        BY <3>5, <4>1, <4>2
      <4>4. QED
        BY <4>3
    <3>11. QED
      BY <2>3, <3>7, <3>8, <3>9, <3>10 DEF ReadsNothingNew, w
  <2>4. QED
    BY <2>2, <2>3
<1>4. QED
  BY <1>2, <1>3

\* A row computed again with other contents is dated by what was learned since the
\* computation before, unless what changed on its day or before carries no date of then.
THEOREM RowsAreDatedByTheirChange == FeaturesSpec => ChangedRowsAreDated
<1>1. RowsIInv /\ [FeaturesNext]_featureVars =>
        [StoreRows =>
           \A d \in DOMAIN rows \intersect DOMAIN rows' :
             \/ rows'[d] = rows[d]
             \/ rows'[d].asOf >= computedOn
             \/ \E e \in undated : e <= d]_featureVars
  BY StoringDates
<1>2. QED
  BY <1>1, RowsInitInvariant, RowsNextInvariant, PTL DEF FeaturesSpec, ChangedRowsAreDated
=============================================================================
