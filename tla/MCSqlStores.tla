------------------------------ MODULE MCSqlStores ------------------------------
(***************************************************************************)
(* Model-checking the stores on a SQL database: the session stores         *)
(* (SqlSessions) and the Postgres device-auth store (PgDeviceStore).       *)
(*                                                                         *)
(* The two use different tables and no call of one waits for the other, so *)
(* what each promises does not depend on the other's steps.  A behaviour   *)
(* here is one of either; the store that is not under test rests in one of *)
(* its initial states.                                                     *)
(***************************************************************************)
EXTENDS SqlSessions, PgDeviceStore

VARIABLE tested  \* what is under test

allVars == <<tested, vars, pgVars>>

SessionsRest == store = "d1"
PgRests == pin[OldPin] = "live" /\ \A t \in Txns : kept[t] = Nobody

MCInit ==
    /\ Init
    /\ PgInit
    /\ \/ tested = "sessions" /\ PgRests
       \/ tested \in {"devices", "guard"} /\ SessionsRest

\* These calls do not run.
Idle(calls) == \A c \in calls : stage'[c] = "begin" /\ c \notin retried'

\* PIN changes with what else writes devices, or with what else writes the
\* login guard: revokeAllDevices and the guard's statements share no row.
MCNext ==
    \/ tested = "sessions" /\ Next /\ UNCHANGED <<tested, pgVars>>
    \/ tested = "devices" /\ PgNext /\ Idle(Logins \cup Resets) /\ UNCHANGED <<tested, vars>>
    \/ tested = "guard" /\ PgNext /\ Idle(RevokeAlls) /\ UNCHANGED <<tested, vars>>

MCSpec == MCInit /\ [][MCNext]_allVars

---------------------------------------------------------------------------
(* The type invariants of both modules (auth_sessions, and the tables of the *)
(* Postgres device-auth store).                                              *)
TypesOK == TypeOK /\ PgTypeOK
=============================================================================
