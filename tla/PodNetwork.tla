------------------------------ MODULE PodNetwork ------------------------------
(***************************************************************************)
(* The network namespace of a pod that outlives its containers.  Starting  *)
(* a container creates a tap device and redirects the traffic of the pod's *)
(* interface to it, step by step and without rollback; a failure is only   *)
(* logged and the guest runs without a network.  Deleting a container      *)
(* removes every tap device of urunc, with the tc rules, from the          *)
(* namespace.  The static network needs no tc rules: it turns on IP        *)
(* forwarding and appends a MASQUERADE rule, neither of which is ever      *)
(* undone.                                                                 *)
(***************************************************************************)
EXTENDS Naturals, Sequences

CONSTANTS
    Containers,  \* the urunc containers of the pod, one after the other or not
    Static,      \* those with the static network: no tc rules
    OnePerPod,   \* a container is only started when the others are deleted
    Faults,      \* which steps may fail: "setup", "cleanup"
    MaxRules     \* bound: no static container starts with that many NAT rules

ASSUME PodAssumption ==
    /\ Static \subseteq Containers
    /\ OnePerPod \in BOOLEAN
    /\ Faults \subseteq {"setup", "cleanup"}
    /\ MaxRules \in Nat

VARIABLES
    have,    \* what is in the namespace: see Objects
    forward, \* net.ipv4.ip_forward of the namespace
    rules,   \* how many MASQUERADE rules its POSTROUTING chain has
    pc,      \* what happens to a container next
    n,       \* position in the plan of its setup
    tapDev,  \* netArgs.TapDev: its guest was given the tap device
    err,     \* its delete met an error
    spoilt   \* history: a delete has met an error

vars == <<have, forward, rules, pc, n, tapDev, err, spoilt>>

\* The tap device, the ingress qdiscs of the tap and of the pod's interface, and
\* the redirect filters attached to these.
Objects == {"tap", "qtap", "qeth", "ftap", "feth"}

SetupPcs   == {"index", "setup", "nat"}
CleanupPcs == {"list", "filters", "qdiscs", "deltap", "end"}
Pcs        == {"idle", "running", "stopped"} \cup SetupPcs \cup CleanupPcs

\* Mutant of Plan: the pod's interface is prepared before the tap exists.
PlanEthFirst(c) ==
    IF c \in Static THEN <<"tap">> ELSE <<"qeth", "tap", "qtap", "ftap", "feth">>

\* networkSetup, in order.
Plan(c) == IF c \in Static THEN <<"tap">> ELSE <<"tap", "qtap", "qeth", "ftap", "feth">>

\* What an object is attached to.
Needs(o) ==
    CASE o \in {"tap", "qeth"} -> {}
      [] o = "qtap" -> {"tap"}
      [] o = "ftap" -> {"qtap"}
      [] o = "feth" -> {"qeth", "tap"}

\* A device has one ingress qdisc.  A tap device that exists is attached to, but
\* not when a monitor has it open: it has a single queue.
Possible(o) ==
    /\ Needs(o) \subseteq have
    /\ o \in {"qtap", "qeth"} => o \notin have
    /\ o = "tap" => \A d \in Containers : ~tapDev[d]

\* The kernel removes with an object what is attached to it.
Without(S) ==
    have \ (S \cup (IF "tap" \in S THEN {"qtap", "ftap"} ELSE {})
              \cup (IF "qtap" \in S THEN {"ftap"} ELSE {})
              \cup (IF "qeth" \in S THEN {"feth"} ELSE {}))

Goto(c, to) == pc' = [pc EXCEPT ![c] = to]

-----------------------------------------------------------------------------
(* Exec: SetupNet *)

\* SetupNet only logs an error of NetworkSetup.
RunWithoutNet(c) == Goto(c, "running") /\ UNCHANGED <<have, forward, rules, n, tapDev, err, spoilt>>

\* Mutant of Begin: the setup starts one step too early.
BeginAtZero(c) ==
    /\ pc[c] = "idle"
    /\ OnePerPod => \A d \in Containers : pc[d] = "idle"
    /\ c \in Static => rules < MaxRules
    /\ Goto(c, "index")
    /\ n' = [n EXCEPT ![c] = 0]
    /\ UNCHANGED <<have, forward, rules, tapDev, err, spoilt>>

\* A container of the pod is started: Exec calls SetupNet.
Begin(c) ==
    /\ pc[c] = "idle"
    /\ OnePerPod => \A d \in Containers : pc[d] = "idle"
    /\ c \in Static => rules < MaxRules
    /\ Goto(c, "index")
    /\ n' = [n EXCEPT ![c] = 1]
    /\ UNCHANGED <<have, forward, rules, tapDev, err, spoilt>>

\* The dynamic network refuses a namespace that has a tap device already, and
\* both need the pod's interface.
Index(c) ==
    /\ pc[c] = "index"
    /\ \/ /\ c \in Static \/ "tap" \notin have
          /\ Goto(c, "setup")
          /\ UNCHANGED <<have, forward, rules, n, tapDev, err, spoilt>>
       \/ c \notin Static /\ "tap" \in have /\ RunWithoutNet(c)
       \/ "setup" \in Faults /\ RunWithoutNet(c)

\* Mutant of SetupStep: a step that fails is skipped.
SetupStepGoesOn(c) ==
    /\ pc[c] = "setup" /\ n[c] <= Len(Plan(c))
    /\ LET o == Plan(c)[n[c]]
       IN  \/ Possible(o) /\ have' = have \cup {o}
           \/ "setup" \in Faults /\ UNCHANGED have
    /\ n' = [n EXCEPT ![c] = @ + 1]
    /\ UNCHANGED <<forward, rules, pc, tapDev, err, spoilt>>

\* One step of networkSetup.
SetupStep(c) ==
    /\ pc[c] = "setup" /\ n[c] <= Len(Plan(c))
    /\ LET o == Plan(c)[n[c]]
       IN  \/ /\ Possible(o)
              /\ have' = have \cup {o}
              /\ n' = [n EXCEPT ![c] = @ + 1]
              /\ UNCHANGED <<forward, rules, pc, tapDev, err, spoilt>>
           \/ ~Possible(o) /\ RunWithoutNet(c)
           \/ "setup" \in Faults /\ RunWithoutNet(c)

\* The guest is given the tap device.
GiveTap(c) ==
    /\ Goto(c, "running")
    /\ tapDev' = [tapDev EXCEPT ![c] = TRUE]
    /\ UNCHANGED <<have, n, err, spoilt>>

\* The dynamic network: what getInterfaceInfo reads can be missing.
SetupDone(c) ==
    /\ pc[c] = "setup" /\ c \notin Static /\ n[c] > Len(Plan(c))
    /\ \/ GiveTap(c) /\ UNCHANGED <<forward, rules>>
       \/ "setup" \in Faults /\ RunWithoutNet(c)

\* The static network, setNATRule: look for iptables, then turn on forwarding.
EnableForwarding(c) ==
    /\ pc[c] = "setup" /\ c \in Static /\ n[c] > Len(Plan(c))
    /\ \/ /\ forward' = TRUE
          /\ Goto(c, "nat")
          /\ UNCHANGED <<have, rules, n, tapDev, err, spoilt>>
       \/ "setup" \in Faults /\ RunWithoutNet(c)

\* Mutant of AppendRule: a failing iptables is taken for a rule.
AppendRuleUnchecked(c) ==
    /\ pc[c] = "nat"
    /\ \/ rules' = rules + 1
       \/ "setup" \in Faults /\ UNCHANGED rules
    /\ GiveTap(c)
    /\ UNCHANGED forward

\* ... and append the rule, whether or not an earlier container left the same one.
AppendRule(c) ==
    /\ pc[c] = "nat"
    /\ \/ rules' = rules + 1 /\ GiveTap(c) /\ UNCHANGED forward
       \/ "setup" \in Faults /\ RunWithoutNet(c)

Stop(c) ==
    /\ pc[c] = "running"
    /\ Goto(c, "stopped")
    /\ tapDev' = [tapDev EXCEPT ![c] = FALSE]
    /\ UNCHANGED <<have, forward, rules, n, err, spoilt>>

-----------------------------------------------------------------------------
(* Delete: cleanupNetwork *)

CleanupFails(c) == err' = [err EXCEPT ![c] = TRUE] /\ spoilt' = TRUE

BeginDelete(c) ==
    /\ pc[c] = "stopped"
    /\ Goto(c, "list")
    /\ err' = [err EXCEPT ![c] = FALSE]
    /\ UNCHANGED <<have, forward, rules, n, tapDev, spoilt>>

\* Join the namespace and list its links; CleanupAllUruncTaps works through the
\* tap devices it finds.
ListTaps(c) ==
    /\ pc[c] = "list"
    /\ \/ Goto(c, IF "tap" \in have THEN "filters" ELSE "end") /\ UNCHANGED <<err, spoilt>>
       \/ "cleanup" \in Faults /\ Goto(c, "end") /\ CleanupFails(c)
    /\ UNCHANGED <<have, forward, rules, n, tapDev>>

\* Removal of S, which stops early at an error: the objects in P are gone, the
\* rest stays.  The cleanup goes on in both cases.
Clean(c, S, P, to) ==
    /\ Goto(c, to)
    /\ \/ have' = Without(S) /\ UNCHANGED <<err, spoilt>>
       \/ /\ "cleanup" \in Faults
          /\ \E R \in {{}, P} : have' = Without(R)
          /\ CleanupFails(c)
    /\ UNCHANGED <<forward, rules, n, tapDev>>

DeleteFilters(c) == pc[c] = "filters" /\ Clean(c, {"ftap", "feth"}, {"ftap"}, "qdiscs")

DeleteQdiscs(c) == pc[c] = "qdiscs" /\ Clean(c, {"qtap", "qeth"}, {"qtap"}, "deltap")

DeleteTap(c) == pc[c] = "deltap" /\ Clean(c, {"tap"}, {}, "end")

\* An error fails the delete, which can be retried, unless it is forced.
EndDelete(c) ==
    /\ pc[c] = "end"
    /\ \/ Goto(c, "idle")
       \/ err[c] /\ Goto(c, "stopped")
    /\ UNCHANGED <<have, forward, rules, n, tapDev, err, spoilt>>

-----------------------------------------------------------------------------
Init ==
    /\ have = {}
    /\ forward = FALSE
    /\ rules = 0
    /\ pc = [c \in Containers |-> "idle"]
    /\ n = [c \in Containers |-> 1]
    /\ tapDev = [c \in Containers |-> FALSE]
    /\ err = [c \in Containers |-> FALSE]
    /\ spoilt = FALSE

Next == \E c \in Containers :
    \/ Begin(c) \/ Index(c) \/ SetupStep(c) \/ SetupDone(c)
    \/ EnableForwarding(c) \/ AppendRule(c) \/ Stop(c)
    \/ BeginDelete(c) \/ ListTaps(c) \/ DeleteFilters(c) \/ DeleteQdiscs(c) \/ DeleteTap(c)
    \/ EndDelete(c)

Spec == Init /\ [][Next]_vars

-----------------------------------------------------------------------------
(* Properties *)

\* Types of the variables: n is a position in the plan of networkSetup, or just
\* past its end.
TypeOK ==
    /\ have \subseteq Objects
    /\ forward \in BOOLEAN
    /\ rules \in Nat
    /\ pc \in [Containers -> Pcs]
    /\ \A c \in Containers : n[c] \in 1 .. Len(Plan(c)) + 1
    /\ tapDev \in [Containers -> BOOLEAN]
    /\ err \in [Containers -> BOOLEAN]
    /\ spoilt \in BOOLEAN

\* A guest that was given the tap device is connected to the pod's interface, by
\* the tc rules or, with the static network, by forwarding and a NAT rule: a setup
\* that met an error reports no tap device, and nothing takes away from a running
\* guest what its traffic goes through.
Wired ==
    \A c \in Containers : tapDev[c] =>
        IF c \in Static THEN "tap" \in have /\ forward /\ rules > 0 ELSE have = Objects

\* Every container is deleted and no forced delete has ignored an error.
AllDeleted == \A c \in Containers : pc[c] = "idle" /\ ~err[c]

\* "Remove it, so a container restarted in the same pod can set up its network"
\* (Delete): once every container is deleted no tap device, qdisc or filter is left
\* behind, wherever the setup of the last one stopped; and if some delete had met
\* an error, at least no tap device is.  It says nothing of forwarding and of the
\* NAT rules of the static network (setNATRule): the code never takes them back,
\* and every start adds one more rule.
CleanAfterDelete ==
    AllDeleted => have \subseteq (IF spoilt THEN {"qeth", "feth"} ELSE {})
=============================================================================
