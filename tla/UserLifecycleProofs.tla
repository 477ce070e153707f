---------------------- MODULE UserLifecycleProofs ----------------------
(***************************************************************************)
(* Theorems about UserLifecycle, for any set of users and any finite set   *)
(* of requests.  Stage says where a request of each kind can stand, RowInv *)
(* who inserted a row, LateInv what a request that lost a race has met,    *)
(* VaultInv what activations leave behind.                                 *)
(***************************************************************************)
EXTENDS UserLifecycle, FiniteSetTheorems, TLAPS

USE ConstantsAssumption DEF ConstantsAssumption

(* The statements of each kind of request, and who has counted. *)
StageOf(r) ==
    /\ IF pc[r] = "idle" THEN req[r] = NoAsk ELSE req[r] \in Menu
    /\ pc[r] \in {"lookup", "count"} => Kind(r) = "create"
    /\ pc[r] \in {"select", "insert"} => Kind(r) \in {"create", "order"}
    /\ pc[r] \in {"find", "vault", "make"} => Kind(r) \in {"activate", "complete"}
    /\ pc[r] = "update" => Kind(r) = "activate"
    /\ pc[r] = "log" => Kind(r) \in {"create", "activate"}
    /\ r \in counted \cup missed => pc[r] \in {"log", "done", "failed"}

Stage == \A r \in Requests : StageOf(r)

TypeInv == TypeOK /\ Stage

(* Two requests in flight have met, and no idle one has met anybody. *)
MetInv ==
    /\ \A a, b \in Requests : InFlight(a) /\ InFlight(b) /\ a # b => <<a, b>> \in met
    /\ \A a, b \in Requests : <<a, b>> \in met => pc[a] # "idle" /\ pc[b] # "idle"

(* A row was inserted by a request about that user, which is past it. *)
RowOf(u) ==
    /\ status[u] # "none" =>
          /\ creator[u] \in Requests /\ User(creator[u]) = u
          /\ Kind(creator[u]) \in {"create", "order"}
          /\ pc[creator[u]] \in {"count", "log", "done", "failed"}
          /\ creator[u] \notin counted =>
                \/ Kind(creator[u]) = "order"
                \/ pc[creator[u]] \in {"count", "failed"}
                \/ creator[u] \in missed

RowInv == \A u \in Users : RowOf(u)

(* Who finds a row where it had seen none has met the request that inserted  *)
(* it.                                                                       *)
MetCreator(r) == <<r, creator[User(r)]>> \in met

LateOf(r) ==
    /\ status[User(r)] # "none" /\ pc[r] = "insert" => MetCreator(r)
    /\ status[User(r)] # "none" /\ pc[r] = "select" /\ Kind(r) = "create" => MetCreator(r)
    /\ pc[r] = "count" \/ r \in counted =>
          status[User(r)] # "none" /\ (creator[User(r)] # r => MetCreator(r))

LateInv == \A r \in Requests : LateOf(r)

(* The same of vaults, and of the constraint that refused a request. *)
MetAnother(r) == \E c \in Requests : <<r, c>> \in met /\ c # r /\ User(c) = User(r)

RivalOf(r) ==
    /\ pc[r] = "make" /\ User(r) \in vault => MetAnother(r)
    /\ pc[r] = "collided" => MetAnother(r)

RivalInv == \A r \in Requests : RivalOf(r)

(* What an activation has left behind. *)
ActivatorOf(r) ==
    /\ r \in activators =>
          /\ pc[r] \in {"vault", "make", "log", "done", "failed", "collided"}
          /\ status[User(r)] = "active"
          /\ User(r) \in vault \/ pc[r] \in {"vault", "make", "failed"}
    /\ pc[r] = "update" => status[User(r)] \in {"pending_onboarding", "active"}

ActivatedOf(u) ==
    status[u] = "active" => \/ req[creator[u]].status = "active"
                            \/ \E r \in activators : User(r) = u

VaultInv == /\ \A r \in Requests : ActivatorOf(r)
            /\ \A u \in Users : ActivatedOf(u)

-----------------------------------------------------------------------------
(* Types and stages.                                                       *)

LEMMA Labels ==
    /\ \A l \in Running : l \notin Ended /\ l # "idle"
    /\ \A l \in Ended : l # "idle"
  BY DEF Running, Ended

(* The ask of a request that has begun. *)
LEMMA AskFacts ==
    ASSUME TypeInv, NEW r \in Requests, pc[r] # "idle"
    PROVE  /\ req[r] \in Menu /\ req[r] \in AskType
           /\ User(r) \in Users
           /\ Kind(r) \in {"create", "activate", "order", "complete"}
           /\ req[r].status \in Statuses
  BY DEF TypeInv, Stage, StageOf, AskType, User, Kind

(* What a request's step leaves alone: everybody else, and every ask. *)
Frame(r) ==
    /\ req' = req /\ met' = met
    /\ pc' \in [Requests -> {"idle"} \cup Running \cup Ended]
    /\ pc[r] \in Running /\ pc'[r] \in Running \cup Ended /\ pc'[r] # "lookup"
    /\ \A c \in Requests : c # r => pc'[c] = pc[c]

LEMMA GotoFrame ==
    ASSUME TypeOK, NEW r \in Requests, NEW l \in (Running \cup Ended) \ {"lookup"},
           pc[r] \in Running, Goto(r, l), UNCHANGED <<req, met>>
    PROVE  Frame(r) /\ pc'[r] = l
  BY DEF TypeOK, Frame, Goto

LEMMA StepFrame ==
    ASSUME TypeInv, NEW r \in Requests, Step(r) \/ Fail(r)
    PROVE  Frame(r)
  <1>1. CASE Lookup(r) BY <1>1, GotoFrame DEF TypeInv, Lookup, Running, Ended, historyVars
  <1>2. CASE Select(r)
    BY <1>2, GotoFrame DEF TypeInv, Select, AfterRow, Running, Ended, historyVars
  <1>3. CASE InsertUser(r)
    BY <1>3, GotoFrame DEF TypeInv, InsertUser, AfterRow, Running, Ended, historyVars
  <1>4. CASE IncrementCount(r)
    BY <1>4, GotoFrame DEF TypeInv, IncrementCount, Running, Ended, historyVars
  <1>5. CASE Find(r)
    <2>1. pc[r] = "find" /\ pc[r] # "idle" BY <1>5 DEF Find
    <2>2. Kind(r) \in {"activate", "complete"} BY <2>1 DEF TypeInv, Stage, StageOf
    <2>3. status[User(r)] \in Statuses \cup {"none"}
      BY <2>1, AskFacts DEF TypeInv, TypeOK
    <2>4. AfterFind(r) \in {"failed", "vault", "done", "update"}
      BY <2>2, <2>3 DEF AfterFind, Statuses
    <2>. QED BY <1>5, <2>1, <2>4, GotoFrame DEF TypeInv, Find, Running, Ended, historyVars
  <1>6. CASE Activate(r)
    BY <1>6, GotoFrame DEF TypeInv, Activate, Running, Ended, historyVars
  <1>7. CASE SelectVault(r)
    BY <1>7, GotoFrame DEF TypeInv, SelectVault, AfterVault, Running, Ended, historyVars
  <1>8. CASE InsertVault(r)
    BY <1>8, GotoFrame DEF TypeInv, InsertVault, AfterVault, Running, Ended, historyVars
  <1>9. CASE Log(r) BY <1>9, GotoFrame DEF TypeInv, Log, Running, Ended, historyVars
  <1>10. CASE Fail(r)
    BY <1>10, GotoFrame DEF TypeInv, Fail, InFlight, Running, Ended, historyVars
  <1>. QED BY <1>1, <1>2, <1>3, <1>4, <1>5, <1>6, <1>7, <1>8, <1>9, <1>10 DEF Step

(* Beginning gives an idle request an ask. *)
LEMMA BeginFrame ==
    ASSUME TypeInv, NEW r \in Requests, NEW ask \in Menu, Begin(r, ask)
    PROVE  /\ pc[r] = "idle" /\ req'[r] = ask /\ req' \in [Requests -> Menu \cup {NoAsk}]
           /\ pc' \in [Requests -> {"idle"} \cup Running \cup Ended]
           /\ pc'[r] = FirstOf(ask.kind) /\ pc'[r] \in {"lookup", "select", "find"}
           /\ ask.kind \in {"create", "activate", "order", "complete"}
           /\ \A c \in Requests : c # r => pc'[c] = pc[c] /\ req'[c] = req[c]
  <1>1. ask.kind \in {"create", "activate", "order", "complete"} BY DEF AskType
  <1>2. FirstOf(ask.kind) \in {"lookup", "select", "find"} BY <1>1 DEF FirstOf
  <1>3. FirstOf(ask.kind) \in Running BY <1>2 DEF Running
  <1>. QED BY <1>1, <1>2, <1>3 DEF Begin, Goto, TypeInv, TypeOK

LEMMA BeginRest ==
    ASSUME TypeInv, NEW r \in Requests, NEW ask \in Menu, Begin(r, ask)
    PROVE  /\ UNCHANGED <<status, vault, count, creator, activators, counted, missed>>
           /\ met' \in SUBSET (Requests \X Requests)
  <1>1. UNION {{<<r, c>>, <<c, r>>} : c \in {d \in Requests : InFlight(d)}}
           \subseteq Requests \X Requests
    OBVIOUS
  <1>2. met \subseteq Requests \X Requests BY DEF TypeInv, TypeOK
  <1>. QED BY <1>1, <1>2 DEF Begin, rowVars

LEMMA CountedStep ==
    ASSUME TypeInv, NEW r \in Requests, IncrementCount(r)
    PROVE  count' = Cardinality(counted')
  <1>1. IsFiniteSet(counted) BY FS_Subset DEF TypeInv, TypeOK
  <1>2. r \notin counted BY DEF TypeInv, Stage, StageOf, IncrementCount
  <1>3. Cardinality(counted \cup {r}) = Cardinality(counted) + 1 BY <1>1, <1>2, FS_AddElement
  <1>. QED BY <1>3 DEF IncrementCount, TypeInv, TypeOK

LEMMA TypeStep ==
    ASSUME TypeInv, NEW r \in Requests, Step(r) \/ Fail(r)
    PROVE  TypeOK'
  <1>. Frame(r) BY StepFrame
  <1>0. /\ pc' \in [Requests -> {"idle"} \cup Running \cup Ended]
        /\ req' \in [Requests -> Menu \cup {NoAsk}]
        /\ met' \subseteq Requests \X Requests
        /\ pc[r] # "idle"
    BY Labels DEF Frame, TypeInv, TypeOK
  <1>a. User(r) \in Users /\ req[r].status \in Statuses BY <1>0, AskFacts
  <1>1. CASE UNCHANGED <<rowVars, creator, activators, counted, missed>>
    BY <1>0, <1>1 DEF TypeInv, TypeOK, rowVars
  <1>2. CASE InsertUser(r) BY <1>0, <1>2, <1>a DEF TypeInv, TypeOK, InsertUser
  <1>3. CASE IncrementCount(r)
    <2>1. count' = Cardinality(counted') BY <1>3, CountedStep
    <2>. QED BY <1>0, <1>3, <2>1 DEF TypeInv, TypeOK, IncrementCount
  <1>4. CASE Activate(r) BY <1>0, <1>4, <1>a DEF TypeInv, TypeOK, Activate, Statuses
  <1>5. CASE InsertVault(r)
    BY <1>0, <1>5, <1>a DEF TypeInv, TypeOK, InsertVault, historyVars
  <1>6. CASE Lookup(r) BY <1>1, <1>6 DEF Lookup, historyVars
  <1>7. CASE Select(r) BY <1>1, <1>7 DEF Select, historyVars
  <1>8. CASE Find(r) BY <1>1, <1>8 DEF Find, historyVars
  <1>9. CASE SelectVault(r) BY <1>1, <1>9 DEF SelectVault, historyVars
  <1>10. CASE Log(r) BY <1>1, <1>10 DEF Log, historyVars
  <1>11. CASE Fail(r) BY <1>1, <1>11 DEF Fail, historyVars
  <1>. QED BY <1>2, <1>3, <1>4, <1>5, <1>6, <1>7, <1>8, <1>9, <1>10, <1>11 DEF Step

(* Only the request that steps changes its stage. *)
LEMMA StageElse ==
    ASSUME TypeInv, NEW r \in Requests, Frame(r), StageOf(r)',
           counted' \subseteq counted \cup {r}, missed' \subseteq missed \cup {r}
    PROVE  Stage'
  <1>1. SUFFICES ASSUME NEW c \in Requests, c # r PROVE StageOf(c)' BY DEF Stage
  <1>. QED BY <1>1 DEF TypeInv, Stage, StageOf, Frame, Kind

LEMMA StageStep ==
    ASSUME TypeInv, NEW r \in Requests, Step(r) \/ Fail(r)
    PROVE  Stage'
  <1>. Frame(r) BY StepFrame
  <1>0. /\ pc \in [Requests -> {"idle"} \cup Running \cup Ended]
        /\ Kind(r)' = Kind(r) /\ req'[r] = req[r] /\ pc[r] # "idle" /\ pc'[r] # "idle"
        /\ StageOf(r)
    BY Labels DEF Frame, TypeInv, TypeOK, Kind, Stage
  <1>a. CASE UNCHANGED <<counted, missed>>
    <2>1. r \in counted \cup missed => pc[r] = "log" BY <1>0 DEF StageOf, Frame, Running
    <2>2. CASE Lookup(r) BY <1>a, <1>0, <2>1, <2>2, StageElse DEF Lookup, Goto, StageOf
    <2>3. CASE Select(r) BY <1>a, <1>0, <2>1, <2>3, StageElse DEF Select, AfterRow, Goto, StageOf
    <2>4. CASE InsertUser(r)
      BY <1>a, <1>0, <2>1, <2>4, StageElse DEF InsertUser, AfterRow, Goto, StageOf
    <2>5. CASE Find(r)
      <3>1. status[User(r)] \in Statuses \cup {"none"}
        BY <1>0, AskFacts DEF TypeInv, TypeOK
      <3>2. /\ AfterFind(r) \in {"failed", "vault", "done", "update"}
            /\ AfterFind(r) = "update" => Kind(r) = "activate"
        BY <1>0, <2>5, <3>1 DEF AfterFind, Statuses, StageOf, Find
      <3>. QED BY <1>a, <1>0, <2>1, <2>5, <3>2, StageElse DEF Find, Goto, StageOf
    <2>6. CASE Activate(r) BY <1>a, <1>0, <2>1, <2>6, StageElse DEF Activate, Goto, StageOf
    <2>7. CASE SelectVault(r)
      BY <1>a, <1>0, <2>1, <2>7, StageElse DEF SelectVault, AfterVault, Goto, StageOf
    <2>8. CASE InsertVault(r)
      BY <1>a, <1>0, <2>1, <2>8, StageElse DEF InsertVault, AfterVault, Goto, StageOf
    <2>9. CASE Log(r) BY <1>a, <1>0, <2>1, <2>9, StageElse DEF Log, Goto, StageOf
    <2>10. CASE Fail(r) BY <1>a, <1>0, <2>1, <2>10, StageElse DEF Fail, Goto, StageOf
    <2>11. ~IncrementCount(r) \/ IncrementCount(r) OBVIOUS
    <2>12. CASE IncrementCount(r)
      BY <1>a, <1>0, <2>1, <2>12, StageElse DEF IncrementCount, Goto, StageOf
    <2>. QED
      BY <2>2, <2>3, <2>4, <2>5, <2>6, <2>7, <2>8, <2>9, <2>10, <2>12 DEF Step
  <1>b. CASE IncrementCount(r)
    BY <1>b, <1>0, StageElse DEF IncrementCount, Goto, StageOf
  <1>c. UNCHANGED <<counted, missed>> \/ IncrementCount(r)
    BY DEF Step, Lookup, Select, InsertUser, Find, Activate, SelectVault, InsertVault, Log,
           Fail, historyVars
  <1>. QED BY <1>a, <1>b, <1>c

LEMMA TypeBegin ==
    ASSUME TypeInv, NEW r \in Requests, NEW ask \in Menu, Begin(r, ask)
    PROVE  TypeInv'
  <1>1. TypeOK' BY BeginFrame, BeginRest DEF TypeInv, TypeOK
  <1>2. StageOf(r)'
    <2>1. r \notin counted \cup missed BY BeginFrame DEF TypeInv, Stage, StageOf
    <2>. QED BY BeginFrame, BeginRest, <2>1 DEF StageOf, Kind, FirstOf
  <1>3. ASSUME NEW c \in Requests, c # r PROVE StageOf(c)'
    <2>1. StageOf(c) /\ pc'[c] = pc[c] /\ req'[c] = req[c] /\ Kind(c)' = Kind(c)
      BY BeginFrame, <1>3 DEF TypeInv, Stage, Kind
    <2>. QED BY BeginRest, <2>1 DEF StageOf
  <1>. QED BY <1>1, <1>2, <1>3 DEF TypeInv, Stage

LEMMA TypeNext == ASSUME TypeInv, [Next]_vars PROVE TypeInv'
  <1>1. CASE UNCHANGED vars
    BY <1>1 DEF vars, TypeInv, TypeOK, Stage, StageOf, Kind
  <1>2. ASSUME NEW r \in Requests, NEW ask \in Menu, Begin(r, ask) PROVE TypeInv'
    BY <1>2, TypeBegin
  <1>3. ASSUME NEW r \in Requests, Step(r) \/ Fail(r) PROVE TypeInv'
    BY <1>3, TypeStep, StageStep DEF TypeInv
  <1>. QED BY <1>1, <1>2, <1>3 DEF Next

LEMMA TypeInit == ASSUME Init PROVE TypeInv
  <1>1. Cardinality({}) = 0 BY FS_EmptySet
  <1>2. TypeOK BY <1>1 DEF Init, TypeOK
  <1>3. Stage BY DEF Init, Stage, StageOf
  <1>. QED BY <1>2, <1>3 DEF TypeInv

(* The counter equals the increments made, the ledger of users and vaults    *)
(* keeps its types, and a request runs the statements of its own kind only.  *)
THEOREM TypeCorrect == Spec => []TypeOK
  <1>1. TypeInv => TypeOK BY DEF TypeInv
  <1>. QED BY TypeInit, TypeNext, <1>1, PTL DEF Spec

-----------------------------------------------------------------------------
(* Who has met whom.                                                       *)

LEMMA BeginMet ==
    ASSUME TypeInv, NEW r \in Requests, NEW ask \in Menu, Begin(r, ask)
    PROVE  /\ met \subseteq met'
           /\ \A c \in Requests : InFlight(c) => <<r, c>> \in met' /\ <<c, r>> \in met'
           /\ \A a, b \in Requests : <<a, b>> \in met' \ met =>
                 (a = r /\ InFlight(b)) \/ (b = r /\ InFlight(a))
  <1>. DEFINE new == UNION {{<<r, c>>, <<c, r>>} : c \in {d \in Requests : InFlight(d)}}
  <1>1. met' = met \cup new BY DEF Begin
  <1>2. \A c \in Requests : InFlight(c) => <<r, c>> \in new /\ <<c, r>> \in new OBVIOUS
  <1>3. \A a, b \in Requests : <<a, b>> \in new =>
           (a = r /\ InFlight(b)) \/ (b = r /\ InFlight(a))
    OBVIOUS
  <1>. QED BY <1>1, <1>2, <1>3

LEMMA MetBegin ==
    ASSUME TypeInv, MetInv, NEW r \in Requests, NEW ask \in Menu, Begin(r, ask)
    PROVE  MetInv'
  <1>0. /\ pc[r] = "idle" /\ pc'[r] # "idle"
        /\ \A c \in Requests : c # r => pc'[c] = pc[c]
        /\ \A c \in Requests : InFlight(c) => pc[c] # "idle"
    BY BeginFrame DEF InFlight, Running
  <1>1. ASSUME NEW a \in Requests, NEW b \in Requests, InFlight(a)', InFlight(b)', a # b
        PROVE  <<a, b>> \in met'
    <2>1. a # r => InFlight(a) BY <1>0, <1>1 DEF InFlight
    <2>2. b # r => InFlight(b) BY <1>0, <1>1 DEF InFlight
    <2>. QED BY <1>1, <2>1, <2>2, BeginMet DEF MetInv
  <1>2. ASSUME NEW a \in Requests, NEW b \in Requests, <<a, b>> \in met'
        PROVE  pc'[a] # "idle" /\ pc'[b] # "idle"
    <2>1. \/ pc[a] # "idle" /\ pc[b] # "idle"
          \/ (a = r /\ InFlight(b)) \/ (b = r /\ InFlight(a))
      BY <1>2, BeginMet DEF MetInv
    <2>. QED BY <2>1, <1>0
  <1>. QED BY <1>1, <1>2 DEF MetInv

LEMMA MetStep ==
    ASSUME TypeInv, MetInv, NEW r \in Requests, Frame(r)
    PROVE  MetInv'
  <1>1. \A c \in Requests : InFlight(c)' => InFlight(c) BY DEF Frame, InFlight
  <1>2. \A c \in Requests : pc[c] # "idle" => pc'[c] # "idle" BY Labels DEF Frame
  <1>. QED BY <1>1, <1>2 DEF MetInv, Frame

-----------------------------------------------------------------------------
(* Rows and the counter.                                                   *)

LEMMA RowStep ==
    ASSUME TypeInv, RowInv, VaultInv, NEW r \in Requests, Step(r) \/ Fail(r), NEW u \in Users
    PROVE  RowOf(u)'
  <1>. Frame(r) BY StepFrame
  <1>0. /\ \A c \in Requests : Kind(c)' = Kind(c) /\ User(c)' = User(c)
        /\ \A c \in Requests : c # r => pc'[c] = pc[c]
        /\ pc[r] \in Running /\ pc[r] # "idle" /\ RowOf(u)
        /\ status \in [Users -> Statuses \cup {"none"}] /\ User(r) \in Users
        /\ creator \in [Users -> Requests \cup {NoRequest}]
        /\ pc \in [Requests -> {"idle"} \cup Running \cup Ended]
    <2>1. /\ \A c \in Requests : Kind(c)' = Kind(c) /\ User(c)' = User(c)
          /\ \A c \in Requests : c # r => pc'[c] = pc[c]
          /\ pc[r] \in Running /\ pc[r] # "idle"
      BY Labels DEF Frame, Kind, User
    <2>2. User(r) \in Users BY <2>1, AskFacts
    <2>. QED BY <2>1, <2>2 DEF RowInv, TypeInv, TypeOK
  <1>1. CASE InsertUser(r)
    <2>1. CASE status[User(r)] = "none" /\ u = User(r)
      <3>1. creator'[u] = r /\ pc'[r] = AfterRow(r) BY <1>0, <1>1, <2>1 DEF InsertUser, Goto
      <3>2. Kind(r) \in {"create", "order"} BY <1>1 DEF InsertUser, TypeInv, Stage, StageOf
      <3>3. req'[creator'[u]] = req[r] BY <3>1 DEF Frame
      <3>. QED BY <2>1, <3>1, <3>2, <3>3 DEF RowOf, AfterRow, Kind, User
    <2>2. CASE ~(status[User(r)] = "none" /\ u = User(r))
      <3>1. status'[u] = status[u] /\ creator'[u] = creator[u] BY <1>0, <1>1, <2>2 DEF InsertUser
      <3>2. status[u] # "none" => creator[u] # r BY <1>0, <1>1 DEF InsertUser, RowOf
      <3>3. UNCHANGED <<counted, missed>> BY <1>1 DEF InsertUser
      <3>. QED BY <1>0, <3>1, <3>2, <3>3 DEF RowOf
    <2>. QED BY <2>1, <2>2
  <1>2. CASE IncrementCount(r)
    <2>1. UNCHANGED <<status, creator>> /\ pc'[r] = "log" BY <1>0, <1>2 DEF IncrementCount, Goto
    <2>2. r \in counted' \cup missed' BY <1>2 DEF IncrementCount
    <2>3. counted \subseteq counted' /\ missed \subseteq missed'
      BY <1>2 DEF IncrementCount
    <2>4. counted' \subseteq counted \cup {r} BY <1>2 DEF IncrementCount
    <2>. QED BY <1>0, <2>1, <2>2, <2>3, <2>4 DEF RowOf
  <1>3. CASE Activate(r)
    <2>1. Kind(r) = "activate" BY <1>3 DEF Activate, TypeInv, Stage, StageOf
    <2>2. UNCHANGED <<creator, counted, missed>> BY <1>3 DEF Activate
    <2>3. status[User(r)] # "none" BY <1>3 DEF Activate, VaultInv, ActivatorOf
    <2>4. status'[u] # "none" => status[u] # "none" BY <1>0, <1>3, <2>3 DEF Activate
    <2>5. status[u] # "none" => creator[u] # r BY <1>0, <2>1 DEF RowOf
    <2>. QED BY <1>0, <2>2, <2>4, <2>5 DEF RowOf
  <1>4. ASSUME UNCHANGED <<status, creator, counted, missed>>,
               pc[r] = "count" => pc'[r] = "failed",
               pc[r] = "log" => pc'[r] \in {"done", "failed"}
        PROVE  RowOf(u)'
    <2>1. status[u] # "none" /\ creator[u] = r => pc[r] \in {"count", "log"}
      BY <1>0 DEF RowOf, Running
    <2>. QED BY <1>0, <1>4, <2>1 DEF RowOf
  <1>5. pc[r] \in {"count", "log"} =>
           IncrementCount(r) \/ Log(r) \/ Fail(r)
    BY DEF Step, Lookup, Select, InsertUser, Find, Activate, SelectVault, InsertVault
  <1>6. /\ Fail(r) => pc'[r] = "failed" /\ UNCHANGED <<status, creator, counted, missed>>
        /\ Log(r) => pc[r] = "log" /\ pc'[r] = "done"
    BY <1>0 DEF Fail, Log, Goto, rowVars, historyVars
  <1>7. \/ InsertUser(r) \/ IncrementCount(r) \/ Activate(r)
        \/ UNCHANGED <<status, creator, counted, missed>>
    BY DEF Step, Lookup, Select, Find, SelectVault, InsertVault, Log, Fail, rowVars, historyVars
  <1>. QED BY <1>1, <1>2, <1>3, <1>4, <1>5, <1>6, <1>7

(* What one step can do to the rows: insert one that was missing, or make    *)
(* active one that was pending or active.                                    *)
LEMMA RowEffect ==
    ASSUME TypeInv, VaultInv, NEW r \in Requests, Step(r) \/ Fail(r), NEW u \in Users
    PROVE  \/ status'[u] = status[u] /\ creator'[u] = creator[u]
           \/ /\ InsertUser(r) /\ u = User(r) /\ pc[r] = "insert"
              /\ status[u] = "none" /\ creator'[u] = r
              /\ status'[u] = req[r].status /\ status'[u] \in Statuses
           \/ /\ Activate(r) /\ u = User(r) /\ creator'[u] = creator[u]
              /\ status[u] \in {"pending_onboarding", "active"} /\ status'[u] = "active"
  <1>0. /\ status \in [Users -> Statuses \cup {"none"}]
        /\ creator \in [Users -> Requests \cup {NoRequest}]
    BY DEF TypeInv, TypeOK
  <1>1. CASE InsertUser(r)
    <2>1. pc[r] # "idle" /\ pc[r] = "insert" BY <1>1 DEF InsertUser
    <2>2. req[r].status \in Statuses BY <2>1, AskFacts
    <2>. QED BY <1>0, <1>1, <2>1, <2>2 DEF InsertUser
  <1>2. CASE Activate(r)
    <2>1. status[User(r)] \in {"pending_onboarding", "active"}
      BY <1>2 DEF Activate, VaultInv, ActivatorOf
    <2>. QED BY <1>0, <1>2, <2>1 DEF Activate
  <1>3. InsertUser(r) \/ Activate(r) \/ UNCHANGED <<status, creator>>
    BY DEF Step, Lookup, Select, IncrementCount, Find, SelectVault, InsertVault, Log, Fail,
           rowVars, historyVars
  <1>. QED BY <1>1, <1>2, <1>3

(* A request that stays where it is keeps what it knows. *)
LEMMA LateElse ==
    ASSUME TypeInv, MetInv, VaultInv, LateInv, NEW r \in Requests, Step(r) \/ Fail(r),
           NEW c \in Requests, c # r
    PROVE  LateOf(c)'
  <1>. Frame(r) BY StepFrame
  <1>0. /\ pc'[c] = pc[c] /\ Kind(c)' = Kind(c) /\ User(c)' = User(c) /\ met' = met
        /\ c \in counted' => c \in counted
    BY DEF Frame, Kind, User, Step, Fail, Lookup, Select, InsertUser, IncrementCount, Find,
           Activate, SelectVault, InsertVault, Log, historyVars
  <1>1. CASE pc[c] = "idle"
    <2>1. c \notin counted BY <1>1 DEF TypeInv, Stage, StageOf
    <2>. QED BY <1>0, <1>1, <2>1 DEF LateOf
  <1>2. CASE pc[c] # "idle"
    <2>1. User(c) \in Users BY <1>2, AskFacts
    <2>2. InFlight(r) /\ (pc[c] \in {"insert", "select"} => <<c, r>> \in met)
      BY DEF Frame, InFlight, MetInv, Running
    <2>3. LateOf(c) BY DEF LateInv
    <2>4. CASE status'[User(c)] = status[User(c)] /\ creator'[User(c)] = creator[User(c)]
      BY <1>0, <2>3, <2>4 DEF LateOf, MetCreator
    <2>5. CASE /\ status[User(c)] = "none" /\ creator'[User(c)] = r
               /\ status'[User(c)] \in Statuses
      <3>1. pc[c] # "count" /\ c \notin counted BY <2>3, <2>5 DEF LateOf
      <3>. QED BY <1>0, <2>2, <2>5, <3>1 DEF LateOf, MetCreator
    <2>6. CASE /\ creator'[User(c)] = creator[User(c)]
               /\ status[User(c)] # "none" /\ status'[User(c)] = "active"
      BY <1>0, <2>3, <2>6 DEF LateOf, MetCreator
    <2>. QED BY <2>1, <2>4, <2>5, <2>6, RowEffect
  <1>. QED BY <1>1, <1>2

LEMMA LateSelf ==
    ASSUME TypeInv, LateInv, NEW r \in Requests, Step(r) \/ Fail(r)
    PROVE  LateOf(r)'
  <1>. Frame(r) BY StepFrame
  <1>0. /\ Kind(r)' = Kind(r) /\ User(r)' = User(r) /\ met' = met /\ LateOf(r)
        /\ pc \in [Requests -> {"idle"} \cup Running \cup Ended]
        /\ pc[r] \in Running /\ pc[r] # "idle"
    BY Labels DEF Frame, Kind, User, LateInv, TypeInv, TypeOK
  <1>a. User(r) \in Users /\ req[r].status \in Statuses BY <1>0, AskFacts
  <1>1. CASE Lookup(r)
    <2>1. r \notin counted BY <1>1 DEF Lookup, TypeInv, Stage, StageOf
    <2>. QED BY <1>0, <1>1, <2>1 DEF Lookup, Goto, LateOf, rowVars, historyVars
  <1>2. CASE Select(r)
    <2>1. r \notin counted BY <1>2 DEF Select, TypeInv, Stage, StageOf
    <2>2. UNCHANGED <<status, creator, counted>> BY <1>2 DEF Select, rowVars, historyVars
    <2>3. pc'[r] = IF status[User(r)] = "none" THEN "insert" ELSE AfterRow(r)
      BY <1>0, <1>2 DEF Select, Goto
    <2>. QED BY <1>0, <1>2, <2>1, <2>2, <2>3 DEF Select, AfterRow, LateOf, MetCreator
  <1>3. CASE InsertUser(r)
    <2>1. r \notin counted BY <1>3 DEF InsertUser, TypeInv, Stage, StageOf
    <2>2. CASE status[User(r)] = "none"
      <3>1. /\ status'[User(r)] = req[r].status /\ creator'[User(r)] = r
            /\ pc'[r] = AfterRow(r) /\ counted' = counted
        BY <1>0, <1>a, <1>3, <2>2 DEF InsertUser, Goto, TypeInv, TypeOK
      <3>. QED BY <1>0, <1>a, <2>1, <3>1 DEF AfterRow, LateOf, Statuses
    <2>3. CASE status[User(r)] # "none"
      <3>1. pc'[r] = "collided" /\ counted' = counted BY <1>0, <1>3, <2>3 DEF InsertUser, Goto
      <3>. QED BY <2>1, <3>1 DEF LateOf
    <2>. QED BY <2>2, <2>3
  <1>4. CASE IncrementCount(r)
    <2>1. UNCHANGED <<status, creator>> /\ pc'[r] = "log"
      BY <1>0, <1>4 DEF IncrementCount, Goto
    <2>2. pc[r] = "count" BY <1>4 DEF IncrementCount
    <2>. QED BY <1>0, <2>1, <2>2 DEF LateOf, MetCreator
  <1>5. ASSUME counted' = counted, r \in counted => UNCHANGED <<status, creator>>,
               pc'[r] \notin {"insert", "select", "count"}
        PROVE  LateOf(r)'
    BY <1>0, <1>5 DEF LateOf, MetCreator
  <1>6. CASE Find(r)
    <2>1. AfterFind(r) \in {"failed", "vault", "done", "update"}
      <3>1. Kind(r) \in {"activate", "complete"} BY <1>6 DEF Find, TypeInv, Stage, StageOf
      <3>2. status[User(r)] \in Statuses \cup {"none"} BY <1>a DEF TypeInv, TypeOK
      <3>. QED BY <3>1, <3>2 DEF AfterFind, Statuses
    <2>. QED BY <1>0, <1>5, <1>6, <2>1 DEF Find, Goto, rowVars, historyVars
  <1>7. CASE Activate(r)
    <2>1. r \notin counted BY <1>7 DEF Activate, TypeInv, Stage, StageOf
    <2>. QED BY <1>0, <1>5, <1>7, <2>1 DEF Activate, Goto
  <1>8. CASE SelectVault(r)
    BY <1>0, <1>5, <1>8 DEF SelectVault, AfterVault, Goto, rowVars, historyVars
  <1>9. CASE InsertVault(r)
    BY <1>0, <1>5, <1>9 DEF InsertVault, AfterVault, Goto, historyVars,
                            TypeInv, Stage, StageOf
  <1>10. CASE Log(r) BY <1>0, <1>5, <1>10 DEF Log, Goto, rowVars, historyVars
  <1>11. CASE Fail(r) BY <1>0, <1>5, <1>11 DEF Fail, Goto, rowVars, historyVars
  <1>. QED
    BY <1>1, <1>2, <1>3, <1>4, <1>6, <1>7, <1>8, <1>9, <1>10, <1>11 DEF Step

-----------------------------------------------------------------------------
(* Vaults and collisions.                                                  *)

LEMMA RivalStep ==
    ASSUME TypeInv, MetInv, RowInv, LateInv, RivalInv,
           NEW r \in Requests, Step(r) \/ Fail(r), NEW c \in Requests
    PROVE  RivalOf(c)'
  <1>. Frame(r) BY StepFrame
  <1>0. /\ \A d \in Requests : User(d)' = User(d)
        /\ met' = met /\ RivalOf(c)
        /\ pc[r] \in Running /\ pc[r] # "idle"
        /\ \A d \in Requests : d # r => pc'[d] = pc[d]
        /\ MetAnother(c) => MetAnother(c)'
    BY Labels DEF Frame, User, RivalInv, MetAnother
  <1>1. User(r) \in Users BY <1>0, AskFacts
  <1>2. CASE c # r
    <2>1. CASE InsertVault(r)
      <3>1. pc[r] = "make" /\ vault' = vault \cup {User(r)} BY <2>1 DEF InsertVault
      <3>2. pc[c] = "make" => <<c, r>> \in met
        BY <1>2, <3>1 DEF MetInv, InFlight, Running
      <3>3. pc[c] = "make" /\ User(c) = User(r) => MetAnother(c)
        BY <1>2, <3>2 DEF MetAnother
      <3>. QED BY <1>0, <1>2, <3>1, <3>3 DEF RivalOf
    <2>2. CASE vault' = vault BY <1>0, <1>2, <2>2 DEF RivalOf
    <2>3. InsertVault(r) \/ vault' = vault
      BY DEF Step, Lookup, Select, InsertUser, IncrementCount, Find, Activate, SelectVault,
             Log, Fail, rowVars, historyVars
    <2>. QED BY <2>1, <2>2, <2>3
  <1>3. CASE c = r
    <2>0. pc \in [Requests -> {"idle"} \cup Running \cup Ended] BY DEF TypeInv, TypeOK
    <2>1. CASE SelectVault(r)
      BY <1>0, <1>3, <2>0, <2>1 DEF SelectVault, AfterVault, Goto, RivalOf, rowVars
    <2>2. CASE InsertVault(r)
      BY <1>0, <1>3, <2>0, <2>2 DEF InsertVault, AfterVault, Goto, RivalOf
    <2>3. CASE InsertUser(r)
      <3>1. CASE status[User(r)] = "none"
        BY <1>3, <2>0, <2>3, <3>1 DEF InsertUser, AfterRow, Goto, RivalOf
      <3>2. CASE status[User(r)] # "none"
        <4>1. MetCreator(r) BY <2>3, <3>2 DEF InsertUser, LateInv, LateOf
        <4>2. /\ creator[User(r)] \in Requests /\ User(creator[User(r)]) = User(r)
              /\ creator[User(r)] # r
          BY <1>1, <2>3, <3>2 DEF InsertUser, RowInv, RowOf
        <4>3. MetAnother(r) BY <4>1, <4>2 DEF MetAnother, MetCreator
        <4>4. pc'[r] = "collided" BY <2>0, <2>3, <3>2 DEF InsertUser, Goto
        <4>. QED BY <1>0, <1>3, <4>3, <4>4 DEF RivalOf
      <3>. QED BY <3>1, <3>2
    <2>4. CASE Find(r)
      <3>1. Kind(r) \in {"activate", "complete"} BY <2>4 DEF Find, TypeInv, Stage, StageOf
      <3>2. status[User(r)] \in Statuses \cup {"none"} BY <1>1 DEF TypeInv, TypeOK
      <3>3. AfterFind(r) \in {"failed", "vault", "done", "update"}
        BY <3>1, <3>2 DEF AfterFind, Statuses
      <3>. QED BY <1>3, <2>0, <2>4, <3>3 DEF Find, Goto, RivalOf
    <2>5. CASE Lookup(r) BY <1>3, <2>0, <2>5 DEF Lookup, Goto, RivalOf
    <2>6. CASE Select(r) BY <1>3, <2>0, <2>6 DEF Select, AfterRow, Goto, RivalOf
    <2>7. CASE IncrementCount(r) BY <1>3, <2>0, <2>7 DEF IncrementCount, Goto, RivalOf
    <2>8. CASE Activate(r) BY <1>3, <2>0, <2>8 DEF Activate, Goto, RivalOf
    <2>9. CASE Log(r) BY <1>3, <2>0, <2>9 DEF Log, Goto, RivalOf
    <2>10. CASE Fail(r) BY <1>3, <2>0, <2>10 DEF Fail, Goto, RivalOf
    <2>. QED
      BY <2>1, <2>2, <2>3, <2>4, <2>5, <2>6, <2>7, <2>8, <2>9, <2>10 DEF Step
  <1>. QED BY <1>2, <1>3

(* Nobody is deactivated, and no vault disappears. *)
LEMMA StaysActive ==
    ASSUME TypeInv, VaultInv, NEW r \in Requests, Step(r) \/ Fail(r), NEW u \in Users
    PROVE  /\ status[u] = "active" => status'[u] = "active"
           /\ status[u] \in {"pending_onboarding", "active"} =>
                 status'[u] \in {"pending_onboarding", "active"}
           /\ vault \subseteq vault'
  <1>1. vault \subseteq vault'
    BY DEF Step, Lookup, Select, InsertUser, IncrementCount, Find, Activate, SelectVault,
           InsertVault, Log, Fail, rowVars, historyVars
  <1>. QED BY <1>1, RowEffect

LEMMA ActivatorStep ==
    ASSUME TypeInv, VaultInv, NEW r \in Requests, Step(r) \/ Fail(r), NEW c \in Requests
    PROVE  ActivatorOf(c)'
  <1>. Frame(r) BY StepFrame
  <1>0. /\ User(c)' = User(c) /\ User(r)' = User(r) /\ Kind(r)' = Kind(r) /\ ActivatorOf(c)
        /\ pc[r] \in Running /\ pc[r] # "idle"
        /\ \A d \in Requests : d # r => pc'[d] = pc[d]
        /\ pc \in [Requests -> {"idle"} \cup Running \cup Ended]
    BY Labels DEF Frame, User, Kind, VaultInv, TypeInv, TypeOK
  <1>1. User(r) \in Users BY <1>0, AskFacts
  <1>2. CASE c # r
    <2>1. c \in activators' => c \in activators
      BY <1>2 DEF Step, Lookup, Select, InsertUser, IncrementCount, Find, Activate,
                  SelectVault, InsertVault, Log, Fail, historyVars
    <2>2. c \in activators \/ pc[c] = "update" => User(c) \in Users
      BY <1>0, AskFacts DEF ActivatorOf
    <2>. QED BY <1>0, <1>2, <2>1, <2>2, StaysActive DEF ActivatorOf
  <1>3. CASE c = r
    <2>0. status[User(r)] = "active" => status'[User(r)] = "active" BY <1>1, StaysActive
    <2>a. vault \subseteq vault' BY <1>1, StaysActive
    <2>1. CASE Activate(r)
      <3>1. status'[User(r)] = "active" /\ pc'[r] = "vault"
        BY <1>0, <1>1, <2>1 DEF Activate, Goto, TypeInv, TypeOK
      <3>. QED BY <1>0, <1>3, <3>1 DEF ActivatorOf
    <2>2. CASE Find(r)
      <3>1. Kind(r) \in {"activate", "complete"} BY <2>2 DEF Find, TypeInv, Stage, StageOf
      <3>2. status[User(r)] \in Statuses \cup {"none"} BY <1>1 DEF TypeInv, TypeOK
      <3>3. AfterFind(r) = "update" => status[User(r)] = "pending_onboarding"
        BY <3>1, <3>2 DEF AfterFind, Statuses
      <3>4. r \notin activators BY <1>0, <1>3, <2>2 DEF Find, ActivatorOf
      <3>5. UNCHANGED <<status, activators>> /\ pc'[r] = AfterFind(r)
        BY <1>0, <2>2 DEF Find, Goto, rowVars, historyVars
      <3>. QED BY <1>0, <1>3, <3>3, <3>4, <3>5 DEF ActivatorOf
    <2>3. CASE SelectVault(r)
      <3>1. UNCHANGED <<vault, activators>>
        BY <2>3 DEF SelectVault, rowVars, historyVars
      <3>2. pc'[r] = IF User(r) \in vault THEN AfterVault(r) ELSE "make"
        BY <1>0, <2>3 DEF SelectVault, Goto
      <3>. QED BY <1>0, <1>3, <2>0, <3>1, <3>2 DEF AfterVault, ActivatorOf
    <2>4. CASE InsertVault(r)
      <3>1. activators' = activators /\ User(r) \in vault'
        BY <2>4 DEF InsertVault, historyVars
      <3>2. pc'[r] \in {"collided", "log", "done"}
        BY <1>0, <2>4 DEF InsertVault, AfterVault, Goto
      <3>. QED BY <1>0, <1>3, <2>0, <3>1, <3>2 DEF ActivatorOf
    <2>5. CASE Log(r)
      <3>1. activators' = activators /\ pc[r] = "log" /\ pc'[r] = "done"
        BY <1>0, <2>5 DEF Log, Goto, historyVars
      <3>. QED BY <1>0, <1>3, <2>0, <2>a, <3>1 DEF ActivatorOf
    <2>6. CASE Fail(r)
      <3>1. activators' = activators /\ pc'[r] = "failed"
        BY <1>0, <2>6 DEF Fail, Goto, historyVars
      <3>. QED BY <1>0, <1>3, <2>0, <3>1 DEF ActivatorOf
    <2>7. ASSUME activators' = activators, pc[r] \in {"lookup", "select", "insert", "count"},
                 pc'[r] # "update"
          PROVE  ActivatorOf(r)'
      BY <1>0, <1>3, <2>7 DEF ActivatorOf
    <2>8. CASE Lookup(r) BY <1>0, <1>3, <2>7, <2>8 DEF Lookup, Goto, historyVars
    <2>9. CASE Select(r) BY <1>0, <1>3, <2>7, <2>9 DEF Select, AfterRow, Goto, historyVars
    <2>10. CASE InsertUser(r)
      BY <1>0, <1>3, <2>7, <2>10 DEF InsertUser, AfterRow, Goto
    <2>11. CASE IncrementCount(r) BY <1>0, <1>3, <2>7, <2>11 DEF IncrementCount, Goto
    <2>. QED
      BY <1>3, <2>1, <2>2, <2>3, <2>4, <2>5, <2>6, <2>8, <2>9, <2>10, <2>11 DEF Step
  <1>. QED BY <1>2, <1>3

LEMMA ActivatedStep ==
    ASSUME TypeInv, RowInv, VaultInv, NEW r \in Requests, Step(r) \/ Fail(r), NEW u \in Users
    PROVE  ActivatedOf(u)'
  <1>. Frame(r) BY StepFrame
  <1>0. /\ \A d \in Requests : User(d)' = User(d)
        /\ req' = req /\ ActivatedOf(u) /\ activators \subseteq Requests
    BY DEF Frame, User, VaultInv, TypeInv, TypeOK
  <1>1. activators \subseteq activators' /\ (Activate(r) => r \in activators')
    BY DEF Step, Lookup, Select, InsertUser, IncrementCount, Find, Activate, SelectVault,
           InsertVault, Log, Fail, historyVars
  <1>2. CASE status'[u] = status[u] /\ creator'[u] = creator[u]
    BY <1>0, <1>1, <1>2 DEF ActivatedOf
  <1>3. CASE creator'[u] = r /\ status'[u] = req[r].status
    BY <1>0, <1>3 DEF ActivatedOf
  <1>4. CASE Activate(r) /\ u = User(r)
    BY <1>0, <1>1, <1>4 DEF ActivatedOf
  <1>. QED BY <1>2, <1>3, <1>4, RowEffect

-----------------------------------------------------------------------------
(* The whole invariant.                                                    *)

IInv == TypeInv /\ MetInv /\ RowInv /\ LateInv /\ RivalInv /\ VaultInv

LEMMA InvInit == ASSUME Init PROVE IInv
  <1>1. TypeInv BY TypeInit
  <1>2. MetInv BY DEF Init, MetInv, InFlight, Running
  <1>3. RowInv BY DEF Init, RowInv, RowOf
  <1>4. LateInv BY DEF Init, LateInv, LateOf
  <1>5. RivalInv BY DEF Init, RivalInv, RivalOf
  <1>6. VaultInv BY DEF Init, VaultInv, ActivatorOf, ActivatedOf
  <1>. QED BY <1>1, <1>2, <1>3, <1>4, <1>5, <1>6 DEF IInv

LEMMA InvBegin ==
    ASSUME IInv, NEW r \in Requests, NEW ask \in Menu, Begin(r, ask)
    PROVE  IInv'
  <1>0. TypeInv /\ MetInv /\ RowInv /\ LateInv /\ RivalInv /\ VaultInv BY DEF IInv
  <1>a. /\ pc[r] = "idle" /\ pc'[r] \in {"lookup", "select", "find"}
        /\ \A c \in Requests : c # r => /\ pc'[c] = pc[c] /\ req'[c] = req[c]
                                      /\ User(c)' = User(c) /\ Kind(c)' = Kind(c)
        /\ UNCHANGED <<status, vault, creator, activators, counted, missed>>
        /\ met \subseteq met'
    BY <1>0, BeginFrame, BeginRest, BeginMet DEF User, Kind
  <1>b. r \notin counted /\ r \notin activators
    BY <1>0, <1>a DEF TypeInv, Stage, StageOf, VaultInv, ActivatorOf
  <1>c. \A u \in Users : status[u] # "none" => creator[u] \in Requests /\ creator[u] # r
    BY <1>0, <1>a DEF RowInv, RowOf
  <1>d. \A c \in Requests : MetAnother(c) /\ c # r => MetAnother(c)'
    <2>1. SUFFICES ASSUME NEW c \in Requests, MetAnother(c), c # r PROVE MetAnother(c)'
      OBVIOUS
    <2>2. PICK d \in Requests : <<c, d>> \in met /\ d # c /\ User(d) = User(c)
      BY <2>1 DEF MetAnother
    <2>3. d # r BY <1>0, <1>a, <2>2 DEF MetInv
    <2>4. User(d)' = User(c)' BY <1>a, <2>1, <2>2, <2>3
    <2>5. <<c, d>> \in met' BY <1>a, <2>2
    <2>. QED BY <2>2, <2>4, <2>5 DEF MetAnother
  <1>1. TypeInv' BY <1>0, TypeBegin
  <1>2. MetInv' BY <1>0, MetBegin
  <1>3. ASSUME NEW u \in Users PROVE RowOf(u)'
    <2>1. CASE status[u] = "none" BY <1>a, <2>1 DEF RowOf
    <2>2. CASE status[u] # "none"
      <3>1. creator[u] \in Requests /\ creator[u] # r BY <1>c, <2>2
      <3>2. RowOf(u) BY <1>0 DEF RowInv
      <3>3. req'[creator'[u]] = req[creator[u]] /\ pc'[creator'[u]] = pc[creator[u]]
        BY <1>a, <3>1
      <3>. QED BY <1>a, <2>2, <3>1, <3>2, <3>3 DEF RowOf, User, Kind
    <2>. QED BY <2>1, <2>2
  <1>4. ASSUME NEW c \in Requests PROVE LateOf(c)'
    <2>1. CASE c # r
      <3>1. LateOf(c) BY <1>0 DEF LateInv
      <3>2. CASE pc[c] = "idle"
        <4>1. c \notin counted BY <1>0, <3>2 DEF TypeInv, Stage, StageOf
        <4>. QED BY <1>a, <2>1, <3>2, <4>1 DEF LateOf
      <3>3. CASE pc[c] # "idle"
        <4>1. User(c) \in Users BY <1>0, <3>3, AskFacts
        <4>. QED BY <1>a, <2>1, <3>1, <4>1 DEF LateOf, MetCreator
      <3>. QED BY <3>2, <3>3
    <2>2. CASE c = r
      <3>1. pc'[r] = "select" => Kind(r)' # "create"
        BY <1>0, BeginFrame DEF FirstOf, Kind
      <3>. QED BY <1>a, <1>b, <2>2, <3>1 DEF LateOf
    <2>. QED BY <2>1, <2>2
  <1>5. ASSUME NEW c \in Requests PROVE RivalOf(c)'
    BY <1>0, <1>a, <1>d DEF RivalInv, RivalOf
  <1>6. ASSUME NEW c \in Requests PROVE ActivatorOf(c)'
    <2>1. CASE c # r BY <1>0, <1>a, <2>1 DEF VaultInv, ActivatorOf
    <2>2. CASE c = r BY <1>a, <1>b, <2>2 DEF ActivatorOf
    <2>. QED BY <2>1, <2>2
  <1>7. ASSUME NEW u \in Users PROVE ActivatedOf(u)'
    <2>1. CASE status[u] = "active"
      <3>1. req'[creator'[u]] = req[creator[u]] BY <1>a, <1>c, <2>1
      <3>2. ASSUME NEW d \in activators, User(d) = u PROVE d \in activators' /\ User(d)' = u
        <4>1. d \in Requests /\ d # r BY <1>0, <1>b DEF TypeInv, TypeOK
        <4>. QED BY <1>a, <3>2, <4>1
      <3>3. ActivatedOf(u) BY <1>0 DEF VaultInv
      <3>. QED BY <1>a, <2>1, <3>1, <3>2, <3>3 DEF ActivatedOf
    <2>2. CASE status[u] # "active" BY <1>a, <2>2 DEF ActivatedOf
    <2>. QED BY <2>1, <2>2
  <1>. QED BY <1>1, <1>2, <1>3, <1>4, <1>5, <1>6, <1>7 DEF IInv, RowInv, LateInv, RivalInv, VaultInv

LEMMA InvNext == ASSUME IInv, [Next]_vars PROVE IInv'
  <1>0. TypeInv /\ MetInv /\ RowInv /\ LateInv /\ RivalInv /\ VaultInv BY DEF IInv
  <1>1. CASE UNCHANGED vars
    <2>1. TypeInv' BY <1>0, <1>1, TypeNext
    <2>2. MetInv' BY <1>0, <1>1 DEF vars, MetInv, InFlight
    <2>3. RowInv' BY <1>0, <1>1 DEF vars, RowInv, RowOf, User, Kind
    <2>4. LateInv' BY <1>0, <1>1 DEF vars, LateInv, LateOf, MetCreator, User, Kind
    <2>5. RivalInv' BY <1>0, <1>1 DEF vars, RivalInv, RivalOf, MetAnother, User
    <2>6. VaultInv' BY <1>0, <1>1 DEF vars, VaultInv, ActivatorOf, ActivatedOf, User
    <2>. QED BY <2>1, <2>2, <2>3, <2>4, <2>5, <2>6 DEF IInv
  <1>2. ASSUME NEW r \in Requests, NEW ask \in Menu, Begin(r, ask) PROVE IInv'
    BY <1>2, InvBegin
  <1>3. ASSUME NEW r \in Requests, Step(r) \/ Fail(r) PROVE IInv'
    <2>1. TypeInv' BY <1>0, <1>3, TypeStep, StageStep DEF TypeInv
    <2>2. MetInv' BY <1>0, <1>3, StepFrame, MetStep
    <2>3. RowInv' BY <1>0, <1>3, RowStep DEF RowInv
    <2>4. LateInv' BY <1>0, <1>3, LateElse, LateSelf DEF LateInv
    <2>5. RivalInv' BY <1>0, <1>3, RivalStep DEF RivalInv
    <2>6. VaultInv' BY <1>0, <1>3, ActivatorStep, ActivatedStep DEF VaultInv
    <2>. QED BY <2>1, <2>2, <2>3, <2>4, <2>5, <2>6 DEF IInv
  <1>. QED BY <1>1, <1>2, <1>3 DEF Next

-----------------------------------------------------------------------------
(* Theorems.                                                               *)

(* total_end_users differs from the number of users only in the ways listed: *)
(* an uncounted user came with a deposit order or a request that failed, and *)
(* whoever counted a user it had not inserted was served while it was.       *)
THEOREM CountIsExplained == Spec => []CountExplained
  <1>1. ASSUME IInv PROVE CountExplained
    <2>1. ASSUME NEW r \in counted
          PROVE  /\ status[User(r)] # "none"
                 /\ creator[User(r)] # r => <<r, creator[User(r)]>> \in met
      BY <1>1 DEF IInv, TypeInv, TypeOK, LateInv, LateOf, MetCreator
    <2>. QED BY <1>1, <2>1 DEF IInv, RowInv, RowOf, CountExplained
  <1>. QED BY <1>1, InvInit, InvNext, PTL DEF Spec

(* An active user without a sandbox vault was inserted active, or its        *)
(* activation is unfinished.                                                 *)
THEOREM ActivationGivesVault == Spec => []ActiveHasVault
  <1>1. ASSUME IInv PROVE ActiveHasVault
    <2>1. SUFFICES ASSUME NEW u \in Users, status[u] = "active", u \notin vault,
                          req[creator[u]].status # "active"
                   PROVE  LET by == {r \in activators : User(r) = u}
                          IN  by # {} /\ \A r \in by : pc[r] \in {"vault", "make", "failed"}
      BY DEF ActiveHasVault
    <2>2. \E r \in activators : User(r) = u BY <1>1, <2>1 DEF IInv, VaultInv, ActivatedOf
    <2>3. ASSUME NEW r \in activators, User(r) = u PROVE pc[r] \in {"vault", "make", "failed"}
      BY <1>1, <2>1, <2>3 DEF IInv, VaultInv, ActivatorOf, TypeInv, TypeOK
    <2>. QED BY <2>2, <2>3
  <1>. QED BY <1>1, InvInit, InvNext, PTL DEF Spec

(* A unique constraint refuses only requests that overlapped another about   *)
(* the same user: one after the other, creation and activation are           *)
(* idempotent.                                                               *)
THEOREM OnlyOverlapsCollide == Spec => []CollisionsOverlap
  <1>1. ASSUME IInv PROVE CollisionsOverlap
    BY <1>1 DEF IInv, RivalInv, RivalOf, MetAnother, CollisionsOverlap
  <1>. QED BY <1>1, InvInit, InvNext, PTL DEF Spec

(* No step of any request takes a user out of suspension or activity. *)
THEOREM StatusOnlyAdvances == Spec => OnlyPendingMoves
  <1>1. ASSUME IInv, [Next]_vars
        PROVE  [\A u \in Users : status'[u] # status[u] =>
                  status[u] = "none"
                  \/ (status[u] = "pending_onboarding" /\ status'[u] = "active")]_vars
    <2>1. SUFFICES ASSUME NEW u \in Users, status'[u] # status[u]
                   PROVE  status[u] = "none"
                          \/ (status[u] = "pending_onboarding" /\ status'[u] = "active")
      OBVIOUS
    <2>2. ~UNCHANGED vars BY <2>1 DEF vars
    <2>3. TypeInv /\ VaultInv BY <1>1 DEF IInv
    <2>4. ~ \E r \in Requests : \E ask \in Menu : Begin(r, ask)
      BY <2>1, <2>3, BeginRest
    <2>5. PICK r \in Requests : Step(r) \/ Fail(r) BY <1>1, <2>2, <2>4 DEF Next
    <2>. QED BY <2>1, <2>3, <2>5, RowEffect
  <1>. QED BY <1>1, InvInit, InvNext, PTL DEF Spec, OnlyPendingMoves
=========================================================================
