------------------------------- MODULE MCParts -------------------------------
(***************************************************************************)
(* The parts of the pipeline and of the API that share no variable, for    *)
(* TLC: a behaviour runs one of them, and the others rest in one state, so *)
(* the states counted are the sum of theirs and not the product.           *)
(***************************************************************************)
EXTENDS Identity, Bhavcopies, CorporateActions, Deliveries, SecurityLists,
        SourceClient, Flows, Features, SignIn, Sessions, SavedViews, TLC

VARIABLE part             \* the part a behaviour runs

Ingested == <<identityVars, fileVars, actionVars, deliveryVars, listVars, clientVars>>
partVars == <<Ingested, flowVars, featureVars, signInVars, sessionVars, savedViewVars, part>>

Parties == {"identity", "bhavcopies", "actions", "deliveries", "lists", "client",
            "flows", "features", "sign_in", "sessions", "saved_views"}

-----------------------------------------------------------------------------
(* The worlds the parts run in.                                            *)

\* Identity: an instrument renamed, moved to another ISIN, and one the venue
\* names by its code.
Tickered(isin, where, symbol, code) ==
  [isin |-> isin, exchange |-> where, symbol |-> symbol, code |-> code]

SmallLines == {Tickered(1, "BSE", 5, 5), Tickered(1, "BSE", 7, 5), Tickered(2, "BSE", 7, 5),
               Tickered(1, "NSE", 7, 0), Tickered(1, "NSE", 8, 0), Tickered(2, "NSE", 7, 0)}

EveryDay == [d \in Days |-> SmallLines]

\* Bhavcopies: a second line, a bond, a line that is no bar, a day of codes alone, an
\* instrument both venues trade, and a day of BSE's corrected by a file that alone brings
\* its second instrument.
Row(isin, code, trades) == [isin |-> isin, code |-> code, trades |-> trades,
                            second |-> FALSE, equity |-> TRUE, readable |-> TRUE]

SmallFiles ==
  [BSE |-> <<{Row(1, 5, 3), [Row(1, 6, 9) EXCEPT !.second = TRUE],
              [Row(1, 9, 0) EXCEPT !.readable = FALSE], [Row(2, 8, 5) EXCEPT !.equity = FALSE]},
             {Row(0, 5, 3)}>>,
   NSE |-> <<{Row(2, 0, 3), Row(1, 0, 1)}, {Row(2, 0, 3)}>>]

SmallCorrected ==
  [BSE |-> <<{Row(1, 5, 3), Row(2, 7, 1)}, {}>>,
   NSE |-> <<{}, {}>>]

SmallRuns == [BSE |-> 2, NSE |-> 1]

\* Corporate actions: a text a later release reads as a split, one that states
\* two actions, and an ISIN the other succeeds.
Nothing == [bonus |-> <<0, 0>>, face |-> <<0, 0>>, dividends |-> {}, namesDividend |-> FALSE,
            namesSplit |-> FALSE, notice |-> FALSE]

FirstRelease ==
  [odd   |-> [Nothing EXCEPT !.namesSplit = TRUE],
   both  |-> [Nothing EXCEPT !.bonus = <<1, 1>>, !.namesDividend = TRUE],
   plain |-> [Nothing EXCEPT !.dividends = {[kind |-> "final", amount |-> 5]},
                             !.namesDividend = TRUE]]

SmallWordings ==
  <<FirstRelease, [FirstRelease EXCEPT !["odd"] = [Nothing EXCEPT !.face = <<10, 2>>,
                                                                  !.namesSplit = TRUE]]>>

Announced(where, isin, day, text) == [segment |-> where, isin |-> isin, code |-> 7,
                                      equity |-> TRUE, ex |-> day, text |-> text]

SmallNotices == {Announced("equities", 1, 1, "odd"), Announced("equities", 1, 1, "both"),
                 Announced("sme", 9, 3, "plain")}

SmallRanges == {<<1, 2>>}

CodeSpan(isin, first, last) == [isin |-> isin, code |-> 7, first |-> first, last |-> last]

SmallHistories ==
  <<[spans |-> {CodeSpan(1, 1, 0)}, master |-> {1}, links |-> {}, otherLinks |-> {}],
    [spans |-> {CodeSpan(1, 1, 1), CodeSpan(2, 2, 0)}, master |-> {1, 2},
     links |-> {<<1, 2>>}, otherLinks |-> {}]>>

\* Deliveries: three contents of a day's file, an identifier identity gives to another
\* instrument once it has read more, and one a later file alone states a figure under.
SmallFigures ==
  <<(1 :> 4 @@ 2 :> NoFigure), (1 :> 5 @@ 2 :> 7), (1 :> 4 @@ 2 :> 8)>>

SmallDerivations ==
  <<{[key |-> 1, isin |-> "A", first |-> 1, last |-> 0],
     [key |-> 2, isin |-> "C", first |-> 1, last |-> 0]},
    {[key |-> 1, isin |-> "A", first |-> 1, last |-> 1],
     [key |-> 1, isin |-> "B", first |-> 2, last |-> 0],
     [key |-> 2, isin |-> "C", first |-> 1, last |-> 0]}>>

SmallPriced == (2 :> {"B", "C"})

\* The listings, the lines they are derived from and the successions above are as
\* the theorems about the figures, the checks and the actions assume.
ASSUME SmallListings == OneOwnerEach /\ OneCodeATicker /\ NoCycles

\* Security lists: two codes of one ISIN, one of which moves from list to list.
Secured(code, isin, name, face) == [code |-> code, isin |-> isin, name |-> name, face |-> face]

SmallLists ==
  <<<<{Secured(1, "A", "new", 10), Secured(3, "NA", "x", 1)}, {Secured(2, "A", "old", 0)}>>,
    <<{Secured(2, "A", "newer", 5)}, {Secured(1, "A", "new", 10), Secured(3, "A", "newest", 2)}>>,
    <<{}, {Secured(2, "A", "newer", 5), Secured(1, "A", "new", 10)}>>>>

SmallHeldCodes == <<{<<"A", 1>>}, {<<"A", 2>>}>>

\* Features: two closes, with turnovers that order the venues either way, and a bar
\* of a predecessor whose delivery was corrected.
SmallBars == {[close |-> 1, turnover |-> 1], [close |-> 2, turnover |-> 2]}

SmallOthers == {[close |-> 3, turnover |-> 2, known |-> 2, shares |-> 1, delivered |-> 3]}

\* Saved views: two names that differ in case, and a third; a screen with the
\* default kind written out, and one of every instrument, each at page two; and
\* two addresses that are no screen's, or name a part twice.
SmallNames == {<<"a", "lower">>, <<"a", "upper">>, <<"b", "lower">>}

SecondPage == [gate |-> "none", kind |-> "companies", criteria |-> <<"figure">>, sort |-> Absent,
               page |-> 2, unknown |-> FALSE, repeated |-> FALSE]

SmallAddresses == {SecondPage, [SecondPage EXCEPT !.kind = "all"],
                   [SecondPage EXCEPT !.sort = "other"], [SecondPage EXCEPT !.repeated = TRUE]}

-----------------------------------------------------------------------------
\* A part at rest starts in the first of its initial states.
PartsInit ==
  /\ part \in Parties
  /\ IdentityInit /\ BhavcopiesInit /\ ActionsInit /\ DeliveriesInit /\ ListsInit
  /\ ClientInit /\ FlowsInit /\ FeaturesInit /\ SignInInit /\ SessionsInit /\ SavedViewsInit
  /\ part # "identity" => exchange = "BSE"
  /\ part # "actions" => venue = "BSE" /\ announced = {}
  /\ part # "deliveries" => market = "BSE"
  /\ part # "lists" => lister = "BSE"
  /\ part # "client" => ~cookieAsked /\ filePublished
  /\ part # "flows" => migrated
  /\ part # "sessions" => idleLimit = Min(IdleLimits) /\ maxLimit = Min(MaxLimits)

OthersRest(p) ==
  /\ part' = part
  /\ p # "identity" => UNCHANGED identityVars
  /\ p # "bhavcopies" => UNCHANGED fileVars
  /\ p # "actions" => UNCHANGED actionVars
  /\ p # "deliveries" => UNCHANGED deliveryVars
  /\ p # "lists" => UNCHANGED listVars
  /\ p # "client" => UNCHANGED clientVars
  /\ p # "flows" => UNCHANGED flowVars
  /\ p # "features" => UNCHANGED featureVars
  /\ p # "sign_in" => UNCHANGED signInVars
  /\ p # "sessions" => UNCHANGED sessionVars
  /\ p # "saved_views" => UNCHANGED savedViewVars

PartsNext ==
  \/ part = "identity" /\ IdentityNext /\ OthersRest("identity")
  \/ part = "bhavcopies" /\ BhavcopiesNext /\ OthersRest("bhavcopies")
  \/ part = "actions" /\ ActionsNext /\ OthersRest("actions")
  \/ part = "deliveries" /\ DeliveriesNext /\ OthersRest("deliveries")
  \/ part = "lists" /\ ListsNext /\ OthersRest("lists")
  \/ part = "client" /\ ClientNext /\ OthersRest("client")
  \/ part = "flows" /\ FlowsNext /\ OthersRest("flows")
  \/ part = "features" /\ FeaturesNext /\ OthersRest("features")
  \/ part = "sign_in" /\ SignInNext /\ OthersRest("sign_in")
  \/ part = "sessions" /\ SessionsNext /\ OthersRest("sessions")
  \/ part = "saved_views" /\ SavedViewsNext /\ OthersRest("saved_views")

PartsSpec == PartsInit /\ [][PartsNext]_partVars

-----------------------------------------------------------------------------
\* Every variable of every part has its type.
PartsTypeOK ==
  /\ part \in Parties
  /\ IdentityTypeOK /\ BhavcopiesTypeOK /\ ActionsTypeOK /\ DeliveriesTypeOK /\ ListsTypeOK
  /\ ClientTypeOK /\ FlowsTypeOK /\ FeaturesTypeOK /\ SignInTypeOK /\ SessionsTypeOK
  /\ SavedViewsTypeOK

\* "Append-only writes of the facts a venue publishes" (facts.py): actions, names and
\* face values are tables of facts, so whatever is read torn, withdrawn, killed or read
\* again, what was known on a date stays readable as of it, in one version to a key.
TablesOfFacts == ActionFacts!FactsSpec /\ NameFacts!FactsSpec /\ FaceValueFacts!FactsSpec
=============================================================================
