------------------------ MODULE ControlGroup_proofs ------------------------
(***************************************************************************)
(* The control group of an execution is emptied by every cleanup that says *)
(* so, and a limit is blamed for the end of a command only if it was       *)
(* passed, for any controllers and any faults but a launch plan that       *)
(* cannot be built.                                                        *)
(***************************************************************************)
EXTENDS ControlGroup, TLAPS

(* The limits that a control group enforces.                               *)
Controllers == {"memory", "pids", "cpu"}

Hosts == {"create", "spawn", "ready", "register", "start", "started", "running", "terminating",
          "aborting", "aborted", "sweep", "failed", "clean", "unclean", "gone"}

Typed ==
    /\ enforced \subseteq Limits /\ kills \in BOOLEAN
    /\ dir \in {"none", "made", "gone"} /\ procs \subseteq {"leader", "worker", "stray"}
    /\ gate \in {"apart", "joined", "open"} /\ raised \subseteq enforced /\ hit \subseteq raised
    /\ host \in Hosts /\ row \in BOOLEAN
    /\ sup \in {"none", "spawn", "gate", "leave", "monitor", "stop", "end", "last", "gone"}
    /\ reason \in {"none", "stopped"} \cup raised
    /\ told \in {"none", "exit", "stopped"} \cup raised
    /\ rec \in {"no", "stop", "group", "sweep", "recovered", "raised"}

(* Who is in the group, by how far the start is: before the leader has     *)
(* joined there is nobody else, and nobody is named or served before that. *)
JoinInv ==
    /\ host \in {"create", "spawn"} => sup = "none"
    /\ sup = "none" => procs = {} /\ gate = "apart"
    /\ gate = "apart" => procs \subseteq {"leader"}
    /\ sup \in {"gate", "monitor"} => gate # "apart"
    /\ row \/ host \in {"register", "start", "started", "running", "terminating", "sweep"}
          => gate # "apart"
    /\ rec # "no" => host = "gone" /\ row

(* The directory is there until a cleanup has removed it.                  *)
DirInv ==
    /\ host = "create" => dir = "none"
    /\ enforced # {} /\ host \notin {"create", "failed", "clean"} /\ rec # "recovered"
          => dir = "made"

(* A leader that has not joined is gone with its supervisor, unless that   *)
(* was killed.                                                             *)
AbortInv ==
    ~May("slow") => /\ sup = "gone" /\ gate = "apart" => procs = {}
                    /\ host = "aborted" => sup \in {"none", "gone"}

(* The counters are read after the end of the leader.                      *)
BlameInv ==
    /\ sup \in {"end", "last"} \/ told # "none" => "leader" \notin procs /\ sup # "none"
    /\ sup = "last" /\ reason = "none" => hit = {}
    /\ told = "exit" => hit = {}

GroupInv == Typed /\ JoinInv /\ DirInv /\ AbortInv /\ BlameInv /\ GroupsAreEmptied

-----------------------------------------------------------------------------
LEMMA GroupStep ==
    ASSUME Limits \subseteq Controllers, "unplanned" \notin Faults
    PROVE  GroupInv /\ Next => GroupInv'
<1> SUFFICES ASSUME GroupInv, Next PROVE GroupInv'
    OBVIOUS
<1> USE DEF GroupInv, processes, supervisor
<1>1. CASE Create
    <2>1. Typed'
        BY <1>1 DEF Create, Typed, Hosts, May
    <2>2. JoinInv'
        BY <1>1 DEF Create, Typed, JoinInv
    <2>3. DirInv'
        BY <1>1 DEF Create, Typed, DirInv, JoinInv
    <2>4. AbortInv'
        BY <1>1 DEF Create, Typed, May, AbortInv, JoinInv
    <2>5. BlameInv'
        BY <1>1 DEF Create, Typed, Controllers, JoinInv, BlameInv
    <2>6. GroupsAreEmptied'
        BY <1>1 DEF Create, Typed, May, JoinInv, DirInv, AbortInv, GroupsAreEmptied
    <2> QED BY <2>1, <2>2, <2>3, <2>4, <2>5, <2>6
<1>2. CASE Spawn
    <2>1. Typed'
        <3>1. /\ host' \in Hosts /\ sup' \in {sup, "spawn"} /\ procs' \in {procs, {"leader"}}
              /\ UNCHANGED <<enforced, kills, dir, gate, raised, hit, row, reason, told, rec>>
            BY <1>2 DEF Spawn, Hosts, May
        <3> QED BY <3>1 DEF Typed
    <2>2. JoinInv'
        BY <1>2 DEF Spawn, Typed, JoinInv
    <2>3. DirInv'
        BY <1>2 DEF Spawn, Typed, DirInv, JoinInv
    <2>4. AbortInv'
        BY <1>2 DEF Spawn, Typed, May, AbortInv, JoinInv
    <2>5. BlameInv'
        BY <1>2 DEF Spawn, Typed, Controllers, JoinInv, BlameInv
    <2>6. GroupsAreEmptied'
        BY <1>2 DEF Spawn, Typed, May, JoinInv, DirInv, AbortInv, GroupsAreEmptied
    <2> QED BY <2>1, <2>2, <2>3, <2>4, <2>5, <2>6
<1>3. CASE StartStep
    <2>1. Typed'
        <3>1. /\ host' \in Hosts /\ sup' \in {sup, "monitor"} /\ gate' \in {gate, "open"}
              /\ UNCHANGED <<enforced, kills, dir, procs, raised, hit, reason, told, rec>>
            BY <1>3 DEF StartStep, Hosts
        <3>2. row' \in BOOLEAN
            BY <1>3, Zenon DEF StartStep, Typed
        <3> QED BY <3>1, <3>2 DEF Typed
    <2>2. JoinInv'
        BY <1>3 DEF StartStep, Typed, JoinInv
    <2>3. DirInv'
        BY <1>3 DEF StartStep, Typed, DirInv, JoinInv
    <2>4. AbortInv'
        BY <1>3 DEF StartStep, Typed, May, AbortInv, JoinInv
    <2>5. BlameInv'
        BY <1>3 DEF StartStep, Typed, Controllers, JoinInv, BlameInv
    <2>6. GroupsAreEmptied'
        BY <1>3
        DEF StartStep, Typed, May, JoinInv, DirInv, AbortInv, GroupsAreEmptied
    <2> QED BY <2>1, <2>2, <2>3, <2>4, <2>5, <2>6
<1>4. CASE Abort
    <2>1. Typed'
        BY <1>4 DEF Abort, Killed, Members, Typed, Hosts, May
    <2>2. JoinInv'
        BY <1>4 DEF Abort, Killed, Members, Typed, JoinInv
    <2>3. DirInv'
        BY <1>4 DEF Abort, Killed, Members, Typed, DirInv, JoinInv
    <2>4. AbortInv'
        BY <1>4 DEF Abort, Killed, Members, Typed, May, AbortInv, JoinInv
    <2>5. BlameInv'
        BY <1>4 DEF Abort, Killed, Members, Typed, Controllers, JoinInv, BlameInv
    <2>6. GroupsAreEmptied'
        BY <1>4
        DEF Abort, Killed, Members, Typed, May, JoinInv, DirInv, AbortInv,
            GroupsAreEmptied
    <2> QED BY <2>1, <2>2, <2>3, <2>4, <2>5, <2>6
<1>5. CASE Aborted
    <2>1. Typed'
        BY <1>5 DEF Aborted, Typed, Hosts, May
    <2>2. JoinInv'
        BY <1>5 DEF Aborted, Typed, JoinInv
    <2>3. DirInv'
        BY <1>5 DEF Aborted, Typed, DirInv, JoinInv
    <2>4. AbortInv'
        BY <1>5 DEF Aborted, Typed, May, AbortInv, JoinInv
    <2>5. BlameInv'
        BY <1>5 DEF Aborted, Typed, Controllers, JoinInv, BlameInv
    <2>6. GroupsAreEmptied'
        BY <1>5 DEF Aborted, Typed, May, JoinInv, DirInv, AbortInv, GroupsAreEmptied
    <2> QED BY <2>1, <2>2, <2>3, <2>4, <2>5, <2>6
<1>6. CASE Ask
    <2>1. Typed'
        BY <1>6 DEF Ask, Typed, Hosts, May
    <2>2. JoinInv'
        BY <1>6 DEF Ask, Typed, JoinInv
    <2>3. DirInv'
        BY <1>6 DEF Ask, Typed, DirInv, JoinInv
    <2>4. AbortInv'
        BY <1>6 DEF Ask, Typed, May, AbortInv, JoinInv
    <2>5. BlameInv'
        BY <1>6 DEF Ask, Typed, Controllers, JoinInv, BlameInv
    <2>6. GroupsAreEmptied'
        BY <1>6 DEF Ask, Typed, May, JoinInv, DirInv, AbortInv, GroupsAreEmptied
    <2> QED BY <2>1, <2>2, <2>3, <2>4, <2>5, <2>6
<1>7. CASE Seen
    <2>1. Typed'
        BY <1>7 DEF Seen, Typed, Hosts, May
    <2>2. JoinInv'
        BY <1>7 DEF Seen, Typed, JoinInv
    <2>3. DirInv'
        BY <1>7 DEF Seen, Typed, DirInv, JoinInv
    <2>4. AbortInv'
        BY <1>7 DEF Seen, Typed, May, AbortInv, JoinInv
    <2>5. BlameInv'
        BY <1>7 DEF Seen, Typed, Controllers, JoinInv, BlameInv
    <2>6. GroupsAreEmptied'
        BY <1>7 DEF Seen, Typed, May, JoinInv, DirInv, AbortInv, GroupsAreEmptied
    <2> QED BY <2>1, <2>2, <2>3, <2>4, <2>5, <2>6
<1>8. CASE ForceStop
    <2>1. Typed'
        BY <1>8 DEF ForceStop, Killed, Members, Group, Typed, Hosts, May
    <2>2. JoinInv'
        BY <1>8 DEF ForceStop, Killed, Members, Group, Typed, JoinInv
    <2>3. DirInv'
        BY <1>8 DEF ForceStop, Killed, Members, Group, Typed, DirInv, JoinInv
    <2>4. AbortInv'
        BY <1>8 DEF ForceStop, Killed, Members, Group, Typed, May, AbortInv, JoinInv
    <2>5. BlameInv'
        BY <1>8
        DEF ForceStop, Killed, Members, Group, Typed, Controllers, JoinInv, BlameInv
    <2>6. GroupsAreEmptied'
        BY <1>8
        DEF ForceStop, Killed, Members, Group, Typed, May, JoinInv, DirInv,
            AbortInv, GroupsAreEmptied
    <2> QED BY <2>1, <2>2, <2>3, <2>4, <2>5, <2>6
<1>9. CASE Crash
    <2>1. Typed'
        BY <1>9 DEF Crash, Typed, Hosts, May
    <2>2. JoinInv'
        BY <1>9 DEF Crash, Typed, JoinInv
    <2>3. DirInv'
        BY <1>9 DEF Crash, Typed, DirInv, JoinInv
    <2>4. AbortInv'
        BY <1>9 DEF Crash, Typed, May, AbortInv, JoinInv
    <2>5. BlameInv'
        BY <1>9 DEF Crash, Typed, Controllers, JoinInv, BlameInv
    <2>6. GroupsAreEmptied'
        BY <1>9 DEF Crash, Typed, May, JoinInv, DirInv, AbortInv, GroupsAreEmptied
    <2> QED BY <2>1, <2>2, <2>3, <2>4, <2>5, <2>6
<1>10. CASE Cleanup
    <2>1. Typed'
        BY <1>10 DEF Cleanup, Sweep, Removes, Killed, Members, Typed, Hosts, May
    <2>2. JoinInv'
        BY <1>10 DEF Cleanup, Sweep, Removes, Killed, Members, Typed, JoinInv
    <2>3. DirInv'
        BY <1>10
        DEF Cleanup, Sweep, Removes, Killed, Members, Typed, DirInv, JoinInv
    <2>4. AbortInv'
        BY <1>10
        DEF Cleanup, Sweep, Removes, Killed, Members, Typed, May, AbortInv, JoinInv
    <2>5. BlameInv'
        BY <1>10
        DEF Cleanup, Sweep, Removes, Killed, Members, Typed, Controllers, JoinInv,
            BlameInv
    <2>6. GroupsAreEmptied'
        BY <1>10
        DEF Cleanup, Sweep, Removes, Killed, Members, Typed, May, JoinInv, DirInv,
            AbortInv, GroupsAreEmptied
    <2> QED BY <2>1, <2>2, <2>3, <2>4, <2>5, <2>6
<1>11. CASE Join
    <2>1. Typed'
        <3>1. /\ sup' \in {sup, "gate", "gone"} /\ gate' \in {gate, "joined"}
              /\ procs' \in {procs, {}}
              /\ UNCHANGED <<enforced, kills, dir, raised, hit, host, row, reason, told, rec>>
            BY <1>11 DEF Join
        <3> QED BY <3>1 DEF Typed
    <2>2. JoinInv'
        BY <1>11 DEF Join, Typed, JoinInv
    <2>3. DirInv'
        BY <1>11 DEF Join, Typed, DirInv, JoinInv
    <2>4. AbortInv'
        BY <1>11 DEF Join, Typed, May, AbortInv, JoinInv
    <2>5. BlameInv'
        BY <1>11 DEF Join, Typed, Controllers, JoinInv, BlameInv
    <2>6. GroupsAreEmptied'
        BY <1>11 DEF Join, Typed, May, JoinInv, DirInv, AbortInv, GroupsAreEmptied
    <2> QED BY <2>1, <2>2, <2>3, <2>4, <2>5, <2>6
<1>12. CASE Withdraw
    <2>1. Typed'
        BY <1>12 DEF Withdraw, Shut, Group, Typed, Hosts, May
    <2>2. JoinInv'
        BY <1>12 DEF Withdraw, Shut, Group, Typed, JoinInv
    <2>3. DirInv'
        BY <1>12 DEF Withdraw, Shut, Group, Typed, DirInv, JoinInv
    <2>4. AbortInv'
        BY <1>12 DEF Withdraw, Shut, Group, Typed, May, AbortInv, JoinInv
    <2>5. BlameInv'
        BY <1>12 DEF Withdraw, Shut, Group, Typed, Controllers, JoinInv, BlameInv
    <2>6. GroupsAreEmptied'
        BY <1>12
        DEF Withdraw, Shut, Group, Typed, May, JoinInv, DirInv, AbortInv,
            GroupsAreEmptied
    <2> QED BY <2>1, <2>2, <2>3, <2>4, <2>5, <2>6
<1>13. CASE Poll
    <2>1. Typed'
        BY <1>13 DEF Poll, Shut, Blame, Group, Typed, Hosts, May
    <2>2. JoinInv'
        BY <1>13 DEF Poll, Shut, Blame, Group, Typed, JoinInv
    <2>3. DirInv'
        BY <1>13 DEF Poll, Shut, Blame, Group, Typed, DirInv, JoinInv
    <2>4. AbortInv'
        BY <1>13 DEF Poll, Shut, Blame, Group, Typed, May, AbortInv, JoinInv
    <2>5. BlameInv'
        BY <1>13 DEF Poll, Shut, Blame, Group, Typed, Controllers, JoinInv, BlameInv
    <2>6. GroupsAreEmptied'
        BY <1>13
        DEF Poll, Shut, Blame, Group, Typed, May, JoinInv, DirInv, AbortInv,
            GroupsAreEmptied
    <2> QED BY <2>1, <2>2, <2>3, <2>4, <2>5, <2>6
<1>14. CASE Reaped
    <2>1. Typed'
        BY <1>14 DEF Reaped, Typed, Hosts, May
    <2>2. JoinInv'
        BY <1>14 DEF Reaped, Typed, JoinInv
    <2>3. DirInv'
        BY <1>14 DEF Reaped, Typed, DirInv, JoinInv
    <2>4. AbortInv'
        BY <1>14 DEF Reaped, Typed, May, AbortInv, JoinInv
    <2>5. BlameInv'
        BY <1>14 DEF Reaped, Typed, Controllers, JoinInv, BlameInv
    <2>6. GroupsAreEmptied'
        BY <1>14 DEF Reaped, Typed, May, JoinInv, DirInv, AbortInv, GroupsAreEmptied
    <2> QED BY <2>1, <2>2, <2>3, <2>4, <2>5, <2>6
<1>15. CASE Close
    <2>1. Typed'
        BY <1>15 DEF Close, Final, Blame, Group, Typed, Hosts, May
    <2>2. JoinInv'
        BY <1>15 DEF Close, Final, Blame, Group, Typed, JoinInv
    <2>3. DirInv'
        BY <1>15 DEF Close, Final, Blame, Group, Typed, DirInv, JoinInv
    <2>4. AbortInv'
        BY <1>15 DEF Close, Final, Blame, Group, Typed, May, AbortInv, JoinInv
    <2>5. BlameInv'
        BY <1>15
        DEF Close, Final, Blame, Group, Typed, Controllers, JoinInv, BlameInv
    <2>6. GroupsAreEmptied'
        BY <1>15
        DEF Close, Final, Blame, Group, Typed, May, JoinInv, DirInv, AbortInv,
            GroupsAreEmptied
    <2> QED BY <2>1, <2>2, <2>3, <2>4, <2>5, <2>6
<1>16. CASE Tell
    <2>1. Typed'
        BY <1>16 DEF Tell, Group, Typed, Hosts, May
    <2>2. JoinInv'
        BY <1>16 DEF Tell, Group, Typed, JoinInv
    <2>3. DirInv'
        BY <1>16 DEF Tell, Group, Typed, DirInv, JoinInv
    <2>4. AbortInv'
        BY <1>16 DEF Tell, Group, Typed, May, AbortInv, JoinInv
    <2>5. BlameInv'
        BY <1>16 DEF Tell, Group, Typed, Controllers, JoinInv, BlameInv
    <2>6. GroupsAreEmptied'
        BY <1>16
        DEF Tell, Group, Typed, May, JoinInv, DirInv, AbortInv, GroupsAreEmptied
    <2> QED BY <2>1, <2>2, <2>3, <2>4, <2>5, <2>6
<1>17. CASE Fork
    <2>1. Typed'
        BY <1>17 DEF Fork, Executed, Group, Typed, Hosts, May
    <2>2. JoinInv'
        BY <1>17 DEF Fork, Executed, Group, Typed, JoinInv
    <2>3. DirInv'
        BY <1>17 DEF Fork, Executed, Group, Typed, DirInv, JoinInv
    <2>4. AbortInv'
        BY <1>17 DEF Fork, Executed, Group, Typed, May, AbortInv, JoinInv
    <2>5. BlameInv'
        BY <1>17 DEF Fork, Executed, Group, Typed, Controllers, JoinInv, BlameInv
    <2>6. GroupsAreEmptied'
        BY <1>17
        DEF Fork, Executed, Group, Typed, May, JoinInv, DirInv, AbortInv,
            GroupsAreEmptied
    <2> QED BY <2>1, <2>2, <2>3, <2>4, <2>5, <2>6
<1>18. CASE Raise
    <2>1. Typed'
        BY <1>18 DEF Raise, Executed, Members, Typed, Hosts, May
    <2>2. JoinInv'
        BY <1>18 DEF Raise, Executed, Members, Typed, JoinInv
    <2>3. DirInv'
        BY <1>18 DEF Raise, Executed, Members, Typed, DirInv, JoinInv
    <2>4. AbortInv'
        BY <1>18 DEF Raise, Executed, Members, Typed, May, AbortInv, JoinInv
    <2>5. BlameInv'
        BY <1>18 DEF Raise, Executed, Members, Typed, Controllers, JoinInv, BlameInv
    <2>6. GroupsAreEmptied'
        BY <1>18
        DEF Raise, Executed, Members, Typed, May, JoinInv, DirInv, AbortInv,
            GroupsAreEmptied
    <2> QED BY <2>1, <2>2, <2>3, <2>4, <2>5, <2>6
<1>19. CASE Recover
    <2>1. Typed'
        BY <1>19
        DEF Recover, Sweep, Removes, Killed, Members, Group, Typed, Hosts, May
    <2>2. JoinInv'
        BY <1>19 DEF Recover, Sweep, Removes, Killed, Members, Group, Typed, JoinInv
    <2>3. DirInv'
        BY <1>19
        DEF Recover, Sweep, Removes, Killed, Members, Group, Typed, DirInv, JoinInv
    <2>4. AbortInv'
        BY <1>19
        DEF Recover, Sweep, Removes, Killed, Members, Group, Typed, May, AbortInv,
            JoinInv
    <2>5. BlameInv'
        BY <1>19
        DEF Recover, Sweep, Removes, Killed, Members, Group, Typed, Controllers,
            JoinInv, BlameInv
    <2>6. GroupsAreEmptied'
        BY <1>19
        DEF Recover, Sweep, Removes, Killed, Members, Group, Typed, May, JoinInv,
            DirInv, AbortInv, GroupsAreEmptied
    <2> QED BY <2>1, <2>2, <2>3, <2>4, <2>5, <2>6
<1>20. ASSUME NEW p \in procs, Ends(p) PROVE GroupInv'
    <2>1. Typed'
        BY <1>20 DEF Ends, Executed, Typed, Hosts, May
    <2>2. JoinInv'
        BY <1>20 DEF Ends, Executed, Typed, JoinInv
    <2>3. DirInv'
        BY <1>20 DEF Ends, Executed, Typed, DirInv, JoinInv
    <2>4. AbortInv'
        BY <1>20 DEF Ends, Executed, Typed, May, AbortInv, JoinInv
    <2>5. BlameInv'
        BY <1>20 DEF Ends, Executed, Typed, Controllers, JoinInv, BlameInv
    <2>6. GroupsAreEmptied'
        BY <1>20
        DEF Ends, Executed, Typed, May, JoinInv, DirInv, AbortInv, GroupsAreEmptied
    <2> QED BY <2>1, <2>2, <2>3, <2>4, <2>5, <2>6
<1> QED
    BY <1>1, <1>2, <1>3, <1>4, <1>5, <1>6, <1>7, <1>8, <1>9, <1>10, <1>11, <1>12,
       <1>13, <1>14, <1>15, <1>16, <1>17, <1>18, <1>19, <1>20
    DEF Next

LEMMA GroupInit == Init => GroupInv
BY
DEF Init, GroupInv, Typed, Hosts, JoinInv, DirInv, AbortInv, BlameInv,
    GroupsAreEmptied

LEMMA GroupKept ==
    ASSUME Limits \subseteq Controllers, "unplanned" \notin Faults
    PROVE  GroupInv /\ [Next]_vars => GroupInv'
<1>1. GroupInv /\ UNCHANGED vars => GroupInv'
    BY
    DEF vars, processes, supervisor, GroupInv, Typed, JoinInv, DirInv, AbortInv,
        BlameInv,
           GroupsAreEmptied
<1> QED BY <1>1, GroupStep

LEMMA GroupTold ==
    ASSUME Limits \subseteq Controllers
    PROVE  GroupInv => GroupsAreTold
BY DEF GroupInv, Typed, BlameInv, GroupsAreTold, LimitsAreBlamed, Controllers

(* A cleanup that says so and an aborted start leave no process and no     *)
(* directory, and what is told of the end of a command blames no limit     *)
(* that was not passed and hides none that was (cleanup_cgroup,            *)
(* limit_reason).                                                          *)
THEOREM GroupsAlwaysTold ==
    ASSUME Limits \subseteq Controllers, "unplanned" \notin Faults
    PROVE  Spec => []GroupsAreTold
BY GroupInit, GroupKept, GroupTold, PTL DEF Spec
=============================================================================
