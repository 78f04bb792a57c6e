----------------------------- MODULE SwapHelper -----------------------------
(***************************************************************************)
(* EntanglementSwapHelper::Install (helper/q2ns-swap-helper.cc): the       *)
(* policy replicates the sessions over the rounds, every planned session   *)
(* is added to the one SwapApp of each node of its path, and an app        *)
(* schedules the sessions it knows when it starts.                         *)
(***************************************************************************)
EXTENDS Integers, Sequences, FiniteSets

CONSTANTS
  Topologies,  \* SwapTopologySpec::sessions to choose from, [path, sid, start]
  Rounds,      \* RoundsConfig::rounds
  Period,      \* RoundsConfig::period_s
  Jitter       \* RoundsConfig::jitter_s

Nodes == UNION {UNION {{list[i].path[j] : j \in DOMAIN list[i].path} : i \in DOMAIN list} :
                 list \in Topologies}
Sids == UNION {{list[i].sid : i \in DOMAIN list} : list \in Topologies}

SwapHelperAssumption ==
  /\ {Rounds, Period, Jitter} \subseteq Nat
  /\ Topologies \subseteq Seq([path : Seq(Nodes), sid : Sids, start : Int])

VARIABLES
  sessions,  \* SwapTopologySpec::sessions
  planned,   \* what PlanSessions has returned so far
  next,      \* the planned session that is installed next
  apps,      \* m_sessions of each node's app, by session id
  fired      \* start events that have run: [node, sid, start]

vars == <<sessions, planned, next, apps, fired>>

NotThere == [role |-> "none"]

Init ==
  /\ sessions \in Topologies
  /\ planned = <<>>
  /\ next = 1
  /\ apps = [m \in Nodes |-> [i \in Sids |-> NotThere]]
  /\ fired = {}

\* RoundsConfig::Enabled.
Enabled == Rounds > 0 /\ Period > 0
PlannedLength == IF Enabled THEN Rounds * Len(sessions) ELSE Len(sessions)

\* PlanSessions, one entry: round by round, in the order of the sessions.
Plan ==
  LET i == Len(planned)
      s == sessions[(i % Len(sessions)) + 1]
      round == i \div Len(sessions)
  IN  /\ i < PlannedLength
      /\ \E jitter \in (IF Enabled THEN -Jitter..Jitter ELSE {0}) :
           planned' = Append(planned, [s EXCEPT !.start = @ + round * Period + jitter])
      /\ UNCHANGED <<sessions, next, apps, fired>>

\* The SessionConfig of position i of the path.
ConfigOf(s, i) ==
  LET last == Len(s.path)
  IN  [role |-> IF i = 1 THEN "prev" ELSE IF i = last THEN "next" ELSE "repeater",
       start |-> s.start,
       nextPeer |-> IF i < last THEN s.path[i + 1] ELSE s.path[i],
       end |-> s.path[last],
       expectedMsgs |-> last - 2]

OnPath(s) == {s.path[i] : i \in DOMAIN s.path}

\* Both ends are added first, then the repeaters along the path: of a node the
\* path visits again the first of these counts.
Place(s, m) ==
  IF m = s.path[1] THEN 1
  ELSE IF m = s.path[Len(s.path)] THEN Len(s.path)
  ELSE CHOOSE i \in DOMAIN s.path :
         s.path[i] = m /\ \A j \in DOMAIN s.path : s.path[j] = m => i <= j

\* AddSession: a session id the app already has is not replaced.
AddSession(m, s) ==
  IF apps[m][s.sid] = NotThere /\ m \in OnPath(s)
  THEN [apps[m] EXCEPT ![s.sid] = ConfigOf(s, Place(s, m))]
  ELSE apps[m]

\* One planned session of InstallUnifiedApps; paths of one node are skipped.
InstallUnified ==
  LET s == planned[next]
  IN  /\ Len(planned) = PlannedLength
      /\ next <= PlannedLength
      /\ next' = next + 1
      /\ apps' = IF Len(s.path) < 2 THEN apps ELSE [m \in Nodes |-> AddSession(m, s)]
      /\ UNCHANGED <<sessions, planned, fired>>

\* ScheduleSession: the start events run in the order of their time.
Starts ==
  UNION {{[node |-> m, sid |-> i, start |-> apps[m][i].start] :
            i \in {j \in Sids : apps[m][j] # NotThere}} : m \in Nodes}
RunStart ==
  /\ next > PlannedLength
  /\ \E e \in Starts \ fired :
       /\ \A f \in Starts \ fired : e.start <= f.start
       /\ fired' = fired \cup {e}
  /\ UNCHANGED <<sessions, planned, next, apps>>

Next == Plan \/ InstallUnified \/ RunStart

Spec == Init /\ [][Next]_vars

-----------------------------------------------------------------------------
Known(i) == {m \in Nodes : apps[m][i] # NotThere}
WithRole(i, role) == {m \in Known(i) : apps[m][i].role = role}

\* One session of the topology has the id i, and its path visits no node twice.
Plain(i) ==
  \A j, k \in DOMAIN sessions : sessions[j].sid = i /\ sessions[k].sid = i =>
    /\ j = k
    /\ \A x, y \in DOMAIN sessions[j].path : sessions[j].path[x] = sessions[j].path[y] => x = y

(* Whatever is planned how often, the apps of a session agree: from its    *)
(* one Prev the next peers lead over every repeater to its one Next, all   *)
(* start together, and the Next expects as many messages as there are      *)
(* repeaters to send them (helper/q2ns-swap-helper.cc:195).  The helper    *)
(* does not check that ids differ and paths visit no node twice: an app    *)
(* keeps the first of several configurations                               *)
(* (model/q2ns-swap-app.cc:164), so sessions that share an id need not     *)
(* agree.                                                                  *)
RolesAgree ==
  \A i \in Sids : Plain(i) /\ Known(i) # {} =>
    /\ Cardinality(WithRole(i, "prev")) = 1 /\ Cardinality(WithRole(i, "next")) = 1
    /\ {apps[m][i].nextPeer : m \in Known(i) \ WithRole(i, "next")}
         = Known(i) \ WithRole(i, "prev")
    /\ \A m, k \in Known(i) : /\ apps[m][i].start = apps[k][i].start
                              /\ apps[m][i].end \in WithRole(i, "next")
    /\ \A m \in WithRole(i, "next") :
         apps[m][i].expectedMsgs = Cardinality(WithRole(i, "repeater"))

(* Every session of the topology runs at least once at every node of its   *)
(* path (helper/q2ns-swap-helper.cc:84).                                   *)
EveryoneStarted ==
  \A j \in DOMAIN sessions : Len(sessions[j].path) >= 2 =>
    \A k \in DOMAIN sessions[j].path :
      \E e \in fired : e.node = sessions[j].path[k] /\ e.sid = sessions[j].sid
EverySessionRuns == <>EveryoneStarted

=============================================================================
