------------------------- MODULE UserLifecycle -------------------------
(***************************************************************************)
(* The end users of one client: rows of end_users, which a request of the  *)
(* SDK or a user's first deposit order inserts, onboarding activates and   *)
(* nothing removes; their sandbox vaults, which activation or the          *)
(* completion of a deposit inserts; and the client's counter               *)
(* total_end_users.  What a completed deposit does to a vault is in        *)
(* DepositFlow.  Every statement commits by itself and requests interleave *)
(* between any two.                                                        *)
(***************************************************************************)
EXTENDS Integers, FiniteSets

CONSTANTS Users,     \* ids the client gives its users
          Requests,  \* HTTP requests served, each of them once
          Menu,      \* what callers ask
          Faults,    \* TRUE: statements fail, servers die
          NoUser, NoRequest

Statuses == {"pending_onboarding", "active", "suspended"}

(* "order" stands for createDeposit and "complete" for completeDeposit, as   *)
(* far as they touch these tables; status matters to "create" alone.         *)
AskType ==
    [kind : {"create", "activate", "order", "complete"}, user : Users, status : Statuses]

ASSUME ConstantsAssumption ==
    /\ Menu \subseteq AskType
    /\ \A q \in Menu : q.kind = "order" => q.status = "active"
    /\ Faults \in BOOLEAN
    /\ NoUser \notin Users /\ NoRequest \notin Requests
    /\ IsFiniteSet(Requests)

NoAsk == [kind |-> "none", user |-> NoUser, status |-> "active"]

VARIABLES
    status,     \* end_users.status; "none": no row
    vault,      \* the users that have a sandbox vault in end_user_vaults
    count,      \* client_organizations.total_end_users
    pc,         \* the statement a request is about to run
    req,        \* what it asks
    creator,    \* history: the request that inserted a user's row
    activators, \* history: the requests that set a status to active
    counted,    \* history: the requests that incremented the counter
    missed,     \* history: those whose increment failed, which is ignored
    met         \* history: the pairs of requests that were served at once

rowVars == <<status, vault, count>>
historyVars == <<creator, activators, counted, missed, met>>
vars == <<status, vault, count, pc, req, creator, activators, counted, missed, met>>

-----------------------------------------------------------------------------

Running == {"lookup", "select", "insert", "count", "find", "update", "vault",
            "make", "log"}
Ended   == {"done", "failed", "collided"}

InFlight(r) == pc[r] \in Running

Goto(r, label) == pc' = [pc EXCEPT ![r] = label]

Kind(r) == req[r].kind
User(r) == req[r].user

Init ==
    /\ status = [u \in Users |-> "none"]
    /\ vault = {}
    /\ count = 0
    /\ pc = [r \in Requests |-> "idle"]
    /\ req = [r \in Requests |-> NoAsk]
    /\ creator = [u \in Users |-> NoRequest]
    /\ activators = {}
    /\ counted = {}
    /\ missed = {}
    /\ met = {}

FirstOf(kind) ==
    CASE kind = "create"                  -> "lookup"
      [] kind = "order"                   -> "select"
      [] kind \in {"activate", "complete"} -> "find"

Begin(r, ask) ==
    /\ pc[r] = "idle"
    /\ req' = [req EXCEPT ![r] = ask]
    /\ met' = met \cup UNION {{<<r, c>>, <<c, r>>} : c \in {d \in Requests : InFlight(d)}}
    /\ Goto(r, FirstOf(ask.kind))
    /\ UNCHANGED <<rowVars, creator, activators, counted, missed>>

-----------------------------------------------------------------------------
(* Creation.  The use case looks a user up before it calls a repository that *)
(* looks again, and counts whichever row that returns.                       *)

Lookup(r) ==
    /\ pc[r] = "lookup"
    /\ Goto(r, IF status[User(r)] = "none" THEN "select" ELSE "done")
    /\ UNCHANGED <<rowVars, req, historyVars>>

(* (Slip: a deposit order counts its user too.) *)
AfterRow_Always(r) == "count"

(* An order's user is not counted. *)
AfterRow(r) == IF Kind(r) = "create" THEN "count" ELSE "done"

(* (Slip: the INSERT alone tells whether the user is new.) *)
Select_Blind(r) ==
    /\ pc[r] = "select"
    /\ Goto(r, "insert")
    /\ UNCHANGED <<rowVars, req, historyVars>>

Select(r) ==
    /\ pc[r] = "select"
    /\ Goto(r, IF status[User(r)] = "none" THEN "insert" ELSE AfterRow(r))
    /\ UNCHANGED <<rowVars, req, historyVars>>

(* (Slip: ON CONFLICT DO UPDATE SET status = excluded.status.) *)
InsertUser_Upsert(r) ==
    /\ pc[r] = "insert"
    /\ status' = [status EXCEPT ![User(r)] = req[r].status]
    /\ creator' = [creator EXCEPT ![User(r)] = r]
    /\ Goto(r, AfterRow(r))
    /\ UNCHANGED <<vault, count, req, activators, counted, missed, met>>

(* The constraint on (client_id, user_id) refuses a second row. *)
InsertUser(r) ==
    /\ pc[r] = "insert"
    /\ IF status[User(r)] = "none"
       THEN /\ status' = [status EXCEPT ![User(r)] = req[r].status]
            /\ creator' = [creator EXCEPT ![User(r)] = r]
            /\ Goto(r, AfterRow(r))
       ELSE Goto(r, "collided") /\ UNCHANGED <<status, creator>>
    /\ UNCHANGED <<vault, count, req, activators, counted, missed, met>>

(* (Slip: the counter is set to the number of rows.) *)
IncrementCount_Recount(r) ==
    /\ pc[r] = "count"
    /\ count' = Cardinality({u \in Users : status[u] # "none"})
    /\ counted' = counted \cup {r}
    /\ Goto(r, "log")
    /\ UNCHANGED <<status, vault, req, creator, activators, missed, met>>

(* An increment that fails is caught and the request goes on. *)
IncrementCount(r) ==
    /\ pc[r] = "count"
    /\ \/ /\ count' = count + 1
          /\ counted' = counted \cup {r}
          /\ UNCHANGED missed
       \/ /\ Faults
          /\ missed' = missed \cup {r}
          /\ UNCHANGED <<count, counted>>
    /\ Goto(r, "log")
    /\ UNCHANGED <<status, vault, req, creator, activators, met>>

-----------------------------------------------------------------------------
(* Activation, and the vault a completed deposit may have to insert.         *)

(* Whoever is active already gets that answer at once, whoever is suspended *)
(* is refused; a deposit completes whatever the status.                     *)
AfterFind(r) ==
    LET s == status[User(r)]
    IN  IF s = "none" THEN "failed"
        ELSE IF Kind(r) = "complete" THEN "vault"
        ELSE CASE s = "active"             -> "done"
               [] s = "suspended"          -> "failed"
               [] s = "pending_onboarding" -> "update"

Find(r) ==
    /\ pc[r] = "find"
    /\ Goto(r, AfterFind(r))
    /\ UNCHANGED <<rowVars, req, historyVars>>

(* UPDATE ... SET status = 'active' WHERE id: whatever it has become. *)
Activate(r) ==
    /\ pc[r] = "update"
    /\ status' = [status EXCEPT ![User(r)] = "active"]
    /\ activators' = activators \cup {r}
    /\ Goto(r, "vault")
    /\ UNCHANGED <<vault, count, req, creator, counted, missed, met>>

AfterVault(r) == IF Kind(r) = "activate" THEN "log" ELSE "done"

(* (Slip: the vault is left for the first deposit to make.) *)
SelectVault_Lazy(r) ==
    /\ pc[r] = "vault"
    /\ Goto(r, IF User(r) \in vault \/ Kind(r) = "activate" THEN AfterVault(r) ELSE "make")
    /\ UNCHANGED <<rowVars, req, historyVars>>

SelectVault(r) ==
    /\ pc[r] = "vault"
    /\ Goto(r, IF User(r) \in vault THEN AfterVault(r) ELSE "make")
    /\ UNCHANGED <<rowVars, req, historyVars>>

(* The constraint on (user, client, environment) refuses a second one. *)
InsertVault(r) ==
    /\ pc[r] = "make"
    /\ vault' = vault \cup {User(r)}
    /\ Goto(r, IF User(r) \in vault THEN "collided" ELSE AfterVault(r))
    /\ UNCHANGED <<status, count, req, historyVars>>

(* The entry of the audit log, after which the request is answered. *)
Log(r) ==
    /\ pc[r] = "log"
    /\ Goto(r, "done")
    /\ UNCHANGED <<rowVars, req, historyVars>>

-----------------------------------------------------------------------------

(* A statement fails or the server dies: what is written stays. *)
Fail(r) ==
    /\ Faults /\ InFlight(r)
    /\ Goto(r, "failed")
    /\ UNCHANGED <<rowVars, req, historyVars>>

Step(r) ==
    \/ Lookup(r)
    \/ Select(r)
    \/ InsertUser(r)
    \/ IncrementCount(r)
    \/ Find(r)
    \/ Activate(r)
    \/ SelectVault(r)
    \/ InsertVault(r)
    \/ Log(r)

Next ==
    \E r \in Requests :
        \/ \E ask \in Menu : Begin(r, ask)
        \/ Step(r)
        \/ Fail(r)

Spec == Init /\ [][Next]_vars

-----------------------------------------------------------------------------
(* Properties.                                                             *)

(* Every variable has its type, and the counter counts the increments.     *)
TypeOK ==
    /\ status \in [Users -> Statuses \cup {"none"}]
    /\ vault \in SUBSET Users
    /\ count = Cardinality(counted)
    /\ pc \in [Requests -> {"idle"} \cup Running \cup Ended]
    /\ req \in [Requests -> Menu \cup {NoAsk}]
    /\ creator \in [Users -> Requests \cup {NoRequest}]
    /\ activators \subseteq Requests
    /\ counted \subseteq Requests /\ missed \subseteq Requests
    /\ met \subseteq Requests \X Requests

(* The counter is the number of users, except for these: a user inserted by  *)
(* a deposit order, by a request that failed or has yet to count, or whose   *)
(* increment failed, is not counted; and one that two requests created at    *)
(* once may be counted by both, though only one of them inserted it.         *)
CountExplained ==
    /\ \A u \in Users : status[u] # "none" /\ creator[u] \notin counted =>
          \/ Kind(creator[u]) = "order"
          \/ pc[creator[u]] \in {"count", "failed"}
          \/ creator[u] \in missed
    /\ \A r \in counted : /\ status[User(r)] # "none"
                          /\ creator[User(r)] # r => <<r, creator[User(r)]>> \in met

(* An active user has a sandbox vault, unless the row was inserted active or *)
(* every request that activated it failed, or is still to insert the vault:  *)
(* asking again will not insert it.                                          *)
ActiveHasVault ==
    \A u \in Users : status[u] = "active" /\ u \notin vault =>
        \/ req[creator[u]].status = "active"
        \/ LET by == {r \in activators : User(r) = u}
           IN  by # {} /\ \A r \in by : pc[r] \in {"vault", "make", "failed"}

(* Looking first makes creation and activation idempotent for a caller who   *)
(* waits: a constraint refuses a request only if another request about the   *)
(* same user was served at the same time.                                    *)
CollisionsOverlap ==
    \A r \in Requests : pc[r] = "collided" =>
        \E c \in Requests : <<r, c>> \in met /\ c # r /\ User(c) = User(r)

(* The only status that is ever left is pending_onboarding, for active: no   *)
(* overlap of creations and activations reinstates a suspended user or sends *)
(* an active one back to onboarding.                                         *)
OnlyPendingMoves ==
    [][\A u \in Users : status'[u] # status[u] =>
          status[u] = "none" \/ (status[u] = "pending_onboarding" /\ status'[u] = "active")]_vars
=========================================================================
