---------------------------- MODULE UserService ----------------------------
(***************************************************************************)
(* services/user-service behind the gateway: the lazily created profiles   *)
(* and the addresses of a user, of which one may be the default.           *)
(*                                                                         *)
(* Each attempt the gateway sends is one handler on a thread of its own,   *)
(* with a session of its own.  The reads of a handler, and each of its     *)
(* commits, are separate steps: nothing is locked between them.  The       *)
(* session keeps the first value it loaded of every address, and its flush *)
(* writes the columns that differ from what was loaded; an UPDATE of a row *)
(* deleted by then fails the flush (StaleDataError), a DELETE does not.    *)
(*                                                                         *)
(* Names, phones, streets and timestamps are left out, so update_profile   *)
(* differs from get_profile by its method alone, and GET .../addresses,    *)
(* which makes the profile too, is get_profile here.                       *)
(***************************************************************************)
EXTENDS ApiGateway

CONSTANTS Users, None

Ops == {"get_profile", "update_profile",
        "create_address", "update_address", "delete_address"}

MethodOf == [op \in Ops |->
    CASE op = "get_profile" -> "GET"
      [] op = "create_address" -> "POST"
      [] op = "delete_address" -> "DELETE"
      [] OTHER -> "PATCH"]

VARIABLES
    profiles,   \* SUBSET Users: the rows of user_profiles
    addresses,  \* Seq(Address): the rows of user_addresses, deleted ones too
    wanted,     \* [Requests -> Wanted \cup {None}]: path and body of each request
    calls,      \* [Requests -> [1 .. attempts -> Call]]: the handlers
    overlapped  \* SUBSET Users: history, two handlers that set the default
                \* address of the user were open at once

userVars == <<profiles, addresses, wanted, calls, overlapped>>

\* request is the one that made the row: history.
Address == [user : Users, request : Requests, is_default : BOOLEAN, deleted : BOOLEAN]

\* is_default "unset" says that the body of a PATCH leaves it out.
Wanted == [op : Ops, user : Users, address : Nat,
           is_default : {"true", "false", "unset"}]

ASSUME NoneAssumption == None \notin Wanted

\* loaded is the session's identity map, defaults what it loaded as default.
Call == [step : {"begin", "insert", "list", "commit", "reply", "done"},
         loaded : SUBSET Nat, defaults : SUBSET Nat,
         status : {"none", "2xx", "4xx", "5xx"}]

UserInit ==
    /\ GatewayInit
    /\ profiles = {}
    /\ addresses = <<>>
    /\ wanted = [r \in Requests |-> None]
    /\ calls = [r \in Requests |-> [n \in 1 .. attempts |->
           [step |-> "begin", loaded |-> {}, defaults |-> {}, status |-> "none"]]]
    /\ overlapped = {}

-----------------------------------------------------------------------------

AddressesOf(u) ==
    {i \in 1 .. Len(addresses) : addresses[i].user = u /\ ~addresses[i].deleted}

DefaultsAmong(ids) == {i \in ids : addresses[i].is_default}

\* The step of a handler that has its profile.
AfterProfile(w) ==
    CASE w.op = "create_address" ->
            IF w.is_default = "true" THEN "list" ELSE "commit"
      [] OTHER -> "reply"

Go(r, n, call) ==
    /\ calls' = [calls EXCEPT ![r][n] = call]
    /\ UNCHANGED <<gatewayVars, wanted>>

Reply(r, n, status) ==
    Go(r, n, [calls[r][n] EXCEPT !.step = "reply", !.status = status])

SetsDefault(r) == wanted[r].is_default = "true"

IsOpen(r, n) == calls[r][n].step \in {"insert", "list", "commit"}

\* History: this handler and another one that sets the default are open.
NoteOverlap(r, n) ==
    overlapped' = IF /\ SetsDefault(r)
                     /\ \E q \in Requests, m \in 1 .. attempts :
                           /\ <<q, m>> # <<r, n>>
                           /\ IsOpen(q, m)
                           /\ wanted[q].user = wanted[r].user
                           /\ SetsDefault(q)
                  THEN overlapped \cup {wanted[r].user} ELSE overlapped

\* A client calls the gateway.  It may name any address ever made.
send(r, w) ==
    /\ w.address \in IF w.op \in {"update_address", "delete_address"}
                     THEN 1 .. Len(addresses) ELSE {0}
    /\ w.is_default \in CASE w.op = "create_address" -> {"true", "false"}
                          [] w.op = "update_address" -> {"true", "false", "unset"}
                          [] OTHER -> {"unset"}
    /\ proxy(r, MethodOf[w.op])
    /\ wanted' = [wanted EXCEPT ![r] = w]
    /\ UNCHANGED <<profiles, addresses, calls, overlapped>>

\* The first read: of the profile, or of the address that the path names.
begin(r, n) ==
    LET w == wanted[r]
        call == calls[r][n]
    IN  /\ n <= proxied[r].attempt
        /\ call.step = "begin"
        /\ NoteOverlap(r, n)
        /\ UNCHANGED <<profiles, addresses>>
        /\ IF w.op \notin {"update_address", "delete_address"}
           THEN IF w.user \in profiles
                THEN Go(r, n, [call EXCEPT !.step = AfterProfile(w), !.status = "2xx"])
                ELSE Go(r, n, [call EXCEPT !.step = "insert"])
           ELSE IF w.address \notin AddressesOf(w.user)
                THEN Reply(r, n, "4xx")
                ELSE Go(r, n, [call EXCEPT
                         !.step = IF SetsDefault(r) THEN "list" ELSE "commit",
                         !.loaded = {w.address},
                         !.defaults = DefaultsAmong({w.address})])

\* get_or_create_profile found no profile and commits one: a transaction of its
\* own, which the primary key refuses when another handler was first.
insert_profile(r, n) ==
    LET w == wanted[r]
    IN  /\ calls[r][n].step = "insert"
        /\ profiles' = profiles \cup {w.user}
        /\ IF w.user \in profiles
           THEN Reply(r, n, "5xx")
           ELSE Go(r, n, [calls[r][n] EXCEPT !.step = AfterProfile(w), !.status = "2xx"])
        /\ UNCHANGED <<addresses, overlapped>>

\* _clear_default_address: what the session had loaded keeps its old value.
list_to_clear(r, n) ==
    LET call == calls[r][n]
        rows == AddressesOf(wanted[r].user)
    IN  /\ call.step = "list"
        /\ Go(r, n, [call EXCEPT !.step = "commit", !.loaded = @ \cup rows,
                     !.defaults = @ \cup DefaultsAmong(rows \ call.loaded)])
        /\ UNCHANGED <<profiles, addresses, overlapped>>

\* The rows whose is_default the flush changes, besides the request's own.
Cleared(r, n) ==
    IF SetsDefault(r) THEN calls[r][n].defaults \ {wanted[r].address} ELSE {}

WithoutDefaults(ids) ==
    [i \in 1 .. Len(addresses) |->
        IF i \in ids THEN [addresses[i] EXCEPT !.is_default = FALSE] ELSE addresses[i]]

Gone(ids) == \E i \in ids : addresses[i].deleted

commit_create(r, n) ==
    /\ calls[r][n].step = "commit"
    /\ wanted[r].op = "create_address"
    /\ UNCHANGED <<profiles, overlapped>>
    /\ IF Gone(Cleared(r, n))
       THEN Reply(r, n, "5xx") /\ UNCHANGED addresses
       ELSE /\ addresses' = Append(WithoutDefaults(Cleared(r, n)),
                  [user |-> wanted[r].user, request |-> r,
                   is_default |-> SetsDefault(r), deleted |-> FALSE])
            /\ Reply(r, n, "2xx")

\* The value the flush leaves in the row that a PATCH names.
UpdateChangedColumns_Whole(r, n) ==
    IF wanted[r].is_default = "unset" THEN wanted[r].address \in calls[r][n].defaults
    ELSE SetsDefault(r)

UpdateChangedColumns(r, n) ==
    LET loaded == wanted[r].address \in calls[r][n].defaults
    IN  IF wanted[r].is_default = "unset" \/ SetsDefault(r) = loaded
        THEN addresses[wanted[r].address].is_default
        ELSE SetsDefault(r)

commit_update(r, n) ==
    LET a == wanted[r].address
    IN  /\ calls[r][n].step = "commit"
        /\ wanted[r].op = "update_address"
        /\ UNCHANGED <<profiles, overlapped>>
        /\ IF Gone(Cleared(r, n) \cup {a})
           THEN Reply(r, n, "5xx") /\ UNCHANGED addresses
           ELSE /\ addresses' = [WithoutDefaults(Cleared(r, n)) EXCEPT
                                   ![a].is_default = UpdateChangedColumns(r, n)]
                /\ Reply(r, n, "2xx")

commit_delete(r, n) ==
    /\ calls[r][n].step = "commit"
    /\ wanted[r].op = "delete_address"
    /\ addresses' = [addresses EXCEPT ![wanted[r].address].deleted = TRUE]
    /\ Reply(r, n, "2xx")
    /\ UNCHANGED <<profiles, overlapped>>

\* db.refresh fails when the row was deleted after the commit.
RefreshFails(r) ==
    CASE wanted[r].op = "create_address" ->
            \E i \in 1 .. Len(addresses) :
                addresses[i].request = r /\ addresses[i].deleted
      [] wanted[r].op = "update_address" -> addresses[wanted[r].address].deleted
      [] OTHER -> FALSE

\* The answer, which nobody awaits when the gateway has given the attempt up.
reply(r, n) ==
    LET status == IF calls[r][n].status = "2xx" /\ RefreshFails(r) THEN "5xx"
                  ELSE calls[r][n].status
    IN  /\ calls[r][n].step = "reply"
        /\ calls' = [calls EXCEPT ![r][n].step = "done"]
        /\ IF proxied[r].status = "waiting" /\ proxied[r].attempt = n
           THEN receive(r, status)
           ELSE UNCHANGED proxied
        /\ UNCHANGED <<now, bucket, faults, profiles, addresses, wanted, overlapped>>

\* The gateway's request_times_out: the handler does not notice.
give_up(r) == request_times_out(r) /\ UNCHANGED userVars

\* The process stops between two steps: its handlers and their sessions go.
service_stops ==
    /\ faults < MaxFaults
    /\ faults' = faults + 1
    /\ calls' = [r \in Requests |-> [n \in 1 .. attempts |->
           IF calls[r][n].step = "begin" THEN calls[r][n]
           ELSE [calls[r][n] EXCEPT !.step = "done"]]]
    /\ UNCHANGED <<now, bucket, proxied, profiles, addresses, wanted, overlapped>>

\* ... and the gateway notices that the connection is gone.
connection_lost(r) ==
    /\ proxied[r].attempt > 0
    /\ calls[r][proxied[r].attempt].step = "done"
    /\ request_fails(r)
    /\ UNCHANGED <<faults, userVars>>

UserNext ==
    \/ tick /\ UNCHANGED userVars
    \/ \E r \in Requests :
        \/ \E op \in Ops, u \in Users, a \in 0 .. Len(addresses),
              is_default \in {"true", "false", "unset"} :
              send(r, [op |-> op, user |-> u, address |-> a, is_default |-> is_default])
        \/ give_up(r)
        \/ connection_lost(r)
        \/ \E n \in 1 .. attempts :
              \/ begin(r, n)
              \/ insert_profile(r, n)
              \/ list_to_clear(r, n)
              \/ commit_create(r, n)
              \/ commit_update(r, n)
              \/ commit_delete(r, n)
              \/ reply(r, n)
    \/ service_stops

UserSpec == UserInit /\ [][UserNext]_<<gatewayVars, userVars>>

-----------------------------------------------------------------------------
(* Properties.                                                             *)

\* Every variable of the gateway and of the user service stays within its type.
UserTypeOK ==
    /\ GatewayTypeOK
    /\ profiles \in SUBSET Users
    /\ addresses \in Seq(Address)
    /\ wanted \in [Requests -> Wanted \cup {None}]
    /\ calls \in [Requests -> [1 .. attempts -> Call]]
    /\ overlapped \in SUBSET Users

\* A user has at most one default address, unless two handlers that set it
\* were open at once.  Every other handler may overlap with them: updates of
\* other columns, deletions, plain creations and attempts nobody awaits.
OneDefaultAddress ==
    \A u \in Users \ overlapped : Cardinality(DefaultsAmong(AddressesOf(u))) <= 1

\* A request makes at most one address, whatever the gateway saw of it.
CreatedOnce ==
    \A i, j \in 1 .. Len(addresses) :
        addresses[i].request = addresses[j].request => i = j

\* When two first requests of a user race to make the profile, the loser's GET
\* is not answered with the error: one retry finds the profile.  A GET is only
\* answered 5xx when every attempt but one was lost, to a time-out or a stop.
RaceCostsOneAttempt ==
    \A r \in Requests :
        proxied[r].method = "GET" /\ proxied[r].status = "5xx" =>
            proxied[r].lost >= RetryAttempts
=============================================================================
