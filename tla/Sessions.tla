------------------------------ MODULE Sessions ------------------------------
(***************************************************************************)
(* The session registry of the server: crates/aex-server/src/session.rs.   *)
(*                                                                         *)
(* Every operator here is what one acquisition of the registry's mutex, or *)
(* one operation on a session's atomics, does.  Server puts them in the    *)
(* order in which the threads that call them do.  A session's Arc outlives *)
(* its place in the map, so its fields are kept for sessions that are gone.*)
(***************************************************************************)
EXTENDS Integers, FiniteSets

CONSTANTS
  SessionIds,     \* ids random_bytes hands out, each of them once
  MaxSessions,    \* limits.max_sessions
  MaxStreams,     \* limits.max_streams_per_session
  DefaultStreams, \* DEFAULT_STREAMS
  IdleTimeout     \* limits.session_idle_timeout_sec

ASSUME SessionAssumption ==
  /\ MaxSessions \in Nat \ {0}
  /\ MaxStreams \in Nat \ {0}
  /\ DefaultStreams \in Nat \ {0}
  /\ IdleTimeout \in Nat \ {0}

VARIABLES
  created,   \* ids that have been given to a session
  sessions,  \* SessionRegistry.sessions: those in the map
  granted,   \* Session.granted_streams
  dataConns, \* Session.data_conns
  lastSeen   \* Session.last_seen_ms

sessionVars == <<created, sessions, granted, dataConns, lastSeen>>

SessionsInit ==
  /\ created = {}
  /\ sessions = {}
  /\ granted = [s \in SessionIds |-> 0]
  /\ dataConns = [s \in SessionIds |-> 0]
  /\ lastSeen = [s \in SessionIds |-> 0]

SessionTypes ==
  /\ created \subseteq SessionIds
  /\ sessions \subseteq created
  /\ granted \in [SessionIds -> Nat]
  /\ dataConns \in [SessionIds -> Nat]
  /\ lastSeen \in [SessionIds -> Nat]

\* The first half of create_at: the count is looked at under one lock ...
HasRoom == Cardinality(sessions) < MaxSessions

Grant(desired) ==
  LET wanted == IF desired = 0 THEN DefaultStreams ELSE desired
  IN  IF wanted <= MaxStreams THEN wanted ELSE MaxStreams

\* ... and the session is put in the map under another.
CreateSession(s, desired, at) ==
  /\ created' = created \cup {s}
  /\ sessions' = sessions \cup {s}
  /\ granted' = [granted EXCEPT ![s] = Grant(desired)]
  /\ lastSeen' = [lastSeen EXCEPT ![s] = at]
  /\ UNCHANGED dataConns

\* is_expired; a clock read before the last touch counts as no time at all.
Expired(s, at) == at - lastSeen[s] > IdleTimeout

TouchSession(s, at) ==
  /\ lastSeen' = [lastSeen EXCEPT ![s] = at]
  /\ UNCHANGED <<created, sessions, granted, dataConns>>

RemoveSession(s) ==
  /\ sessions' = sessions \ {s}
  /\ UNCHANGED <<created, granted, dataConns, lastSeen>>

\* sweep_expired_at
SweepExpired(at) ==
  /\ sessions' = {s \in sessions : ~Expired(s, at)}
  /\ UNCHANGED <<created, granted, dataConns, lastSeen>>

\* open_data_conn: the compare-and-exchange succeeds below the cap only.
StreamFree(s) == dataConns[s] < granted[s]

CountConn(s, n) ==
  /\ dataConns' = [dataConns EXCEPT ![s] = @ + n]
  /\ UNCHANGED <<created, sessions, granted, lastSeen>>
=============================================================================
