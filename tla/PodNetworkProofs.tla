--------------------------- MODULE PodNetworkProofs ---------------------------
(***************************************************************************)
(* Proofs about PodNetwork, for any containers and any steps that fail.    *)
(* What a guest is connected to, and what a delete leaves behind, is known *)
(* when the containers of a pod come one after the other (OnePerPod).      *)
(***************************************************************************)
EXTENDS PodNetwork, TLAPS

\* The position in the plan of networkSetup is kept for every container.
Typed == TypeOK /\ n \in [Containers -> Nat]

\* The pod has one container at a time.
Alone == \A c, d \in Containers : pc[c] # "idle" /\ pc[d] # "idle" => c = d

\* Only a running guest was given the tap device.
GivenToRunning == \A c \in Containers : tapDev[c] => pc[c] = "running"

\* A setup has made what comes before its position in the plan.
PlanMade == \A c \in Containers : pc[c] \in SetupPcs =>
    \A k \in 1 .. Len(Plan(c)) : k < n[c] => Plan(c)[k] \in have

\* A NAT rule is appended once the tap device is made and forwarding is on.
Forwarded == \A c \in Containers :
    pc[c] = "nat" => c \in Static /\ forward /\ n[c] > Len(Plan(c))

\* The ingress qdisc of the tap device, and its filter, go with the device.
Attached == "tap" \notin have => have \subseteq {"qeth", "feth"}

\* Without an error of a delete, nothing is there without the tap device: it is
\* the first to come and the last to go.
TapFirst == ~spoilt => have = {} \/ "tap" \in have

\* A delete that met no error has removed what it went through.
Removed == \A c \in Containers : ~err[c] =>
    /\ pc[c] = "deltap" => have \subseteq {"tap"}
    /\ pc[c] = "end" => have \subseteq (IF spoilt THEN {"qeth", "feth"} ELSE {})

ErrSpoils == \A c \in Containers : err[c] => spoilt

PodInv ==
    /\ Typed
    /\ Alone
    /\ GivenToRunning
    /\ PlanMade
    /\ Forwarded
    /\ Wired
    /\ Attached
    /\ TapFirst
    /\ Removed
    /\ ErrSpoils
    /\ CleanAfterDelete

-----------------------------------------------------------------------------
(* Type correctness *)

\* The plan of a container: one object, or all of them.
LEMMA PlanValues ==
    ASSUME NEW c
    PROVE  /\ Len(Plan(c)) \in 1 .. 5
           /\ Plan(c)[1] = "tap"
           /\ c \in Static => Len(Plan(c)) = 1
           /\ c \notin Static =>
                /\ Len(Plan(c)) = 5
                /\ Plan(c)[2] = "qtap" /\ Plan(c)[3] = "qeth"
                /\ Plan(c)[4] = "ftap" /\ Plan(c)[5] = "feth"
           /\ \A k \in 1 .. Len(Plan(c)) : Plan(c)[k] \in Objects
<1>1. CASE c \in Static
  BY <1>1 DEF Plan, Objects
<1>2. CASE c \notin Static
  BY <1>2 DEF Plan, Objects
<1> QED
  BY <1>1, <1>2

\* Every step is one of the actions of the model.
LEMMA PodCases ==
    ASSUME [Next]_vars
    PROVE  \/ UNCHANGED vars
           \/ \E c \in Containers :
               \/ Begin(c) \/ Index(c) \/ SetupStep(c) \/ SetupDone(c)
               \/ EnableForwarding(c) \/ AppendRule(c) \/ Stop(c)
               \/ BeginDelete(c) \/ ListTaps(c) \/ DeleteFilters(c) \/ DeleteQdiscs(c)
               \/ DeleteTap(c) \/ EndDelete(c)
BY Zenon DEF Next

LEMMA TypedInit == Init => Typed
<1> SUFFICES ASSUME Init PROVE Typed
  OBVIOUS
<1>1. \A c \in Containers : 1 \in 1 .. Len(Plan(c)) + 1
  BY PlanValues
<1> QED
  BY <1>1 DEF Init, Typed, TypeOK, Objects, Pcs

LEMMA TypedStep == Typed /\ [Next]_vars => Typed'
<1> SUFFICES ASSUME Typed, [Next]_vars PROVE Typed'
  OBVIOUS
<1> USE DEF Typed, TypeOK, Goto
<1>1. CASE UNCHANGED vars
  BY <1>1 DEF vars
<1>2. ASSUME NEW c \in Containers, Begin(c) PROVE Typed'
  <2>1. \A d \in Containers : n'[d] \in 1 .. Len(Plan(d)) + 1
    BY <1>2, PlanValues DEF Begin
  <2> QED
    BY <1>2, <2>1 DEF Begin, Pcs, SetupPcs
<1>3. ASSUME NEW c \in Containers, Index(c) PROVE Typed'
  BY <1>3 DEF Index, RunWithoutNet, Pcs, SetupPcs
<1>4. ASSUME NEW c \in Containers, SetupStep(c) PROVE Typed'
  <2>1. CASE RunWithoutNet(c)
    BY <2>1 DEF RunWithoutNet, Pcs
  <2>2. CASE /\ have' = have \cup {Plan(c)[n[c]]}
             /\ n' = [n EXCEPT ![c] = @ + 1]
             /\ UNCHANGED <<forward, rules, pc, tapDev, err, spoilt>>
    <3>1. n[c] \in 1 .. Len(Plan(c))
      BY <1>4, PlanValues DEF SetupStep
    <3>2. have' \subseteq Objects
      BY <2>2, <3>1, PlanValues
    <3>3. n'[c] \in 1 .. Len(Plan(c)) + 1 /\ \A d \in Containers : d # c => n'[d] = n[d]
      BY <2>2, <3>1, PlanValues
    <3>4. n' \in [Containers -> Nat]
      BY <2>2, <3>1
    <3> QED
      BY <2>2, <3>2, <3>3, <3>4
  <2> QED
    BY <1>4, <2>1, <2>2 DEF SetupStep
<1>5. ASSUME NEW c \in Containers, SetupDone(c) \/ Stop(c) PROVE Typed'
  BY <1>5 DEF SetupDone, GiveTap, Stop, RunWithoutNet, Pcs
<1>8. ASSUME NEW c \in Containers, EnableForwarding(c) \/ AppendRule(c) PROVE Typed'
  <2>1. have' = have /\ n' = n /\ err' = err /\ spoilt' = spoilt
    BY <1>8 DEF EnableForwarding, AppendRule, GiveTap, RunWithoutNet
  <2>3. forward' \in BOOLEAN
    <3>1. forward' = TRUE \/ forward' = forward
      BY <1>8, Zenon DEF EnableForwarding, AppendRule, RunWithoutNet
    <3> QED
      BY <3>1
  <2>4. rules' \in Nat
    BY <1>8 DEF EnableForwarding, AppendRule, RunWithoutNet
  <2>2. pc' \in [Containers -> Pcs] /\ tapDev' \in [Containers -> BOOLEAN]
    BY <1>8 DEF EnableForwarding, AppendRule, GiveTap, RunWithoutNet, Pcs, SetupPcs
  <2> QED
    BY <2>1, <2>2, <2>3, <2>4
<1>6. ASSUME NEW c \in Containers, BeginDelete(c) \/ ListTaps(c) \/ EndDelete(c) PROVE Typed'
  BY <1>6 DEF BeginDelete, ListTaps, EndDelete, CleanupFails, Pcs, CleanupPcs
<1>7. ASSUME NEW c \in Containers, DeleteFilters(c) \/ DeleteQdiscs(c) \/ DeleteTap(c) PROVE Typed'
  <2>1. have' \subseteq have
    BY <1>7 DEF DeleteFilters, DeleteQdiscs, DeleteTap, Clean, Without
  <2>2. /\ pc' \in [Containers -> Pcs] /\ UNCHANGED <<forward, rules, n, tapDev>>
        /\ err' \in [Containers -> BOOLEAN] /\ spoilt' \in BOOLEAN
    BY <1>7 DEF DeleteFilters, DeleteQdiscs, DeleteTap, Clean, CleanupFails, Pcs, CleanupPcs
  <2> QED
    BY <2>1, <2>2
<1> QED
  BY <1>1, <1>2, <1>3, <1>4, <1>5, <1>6, <1>7, <1>8, PodCases

\* The variables of the model of network.go keep their types: no setup runs past
\* the end of its plan, however the containers of the pod overlap.
THEOREM PodTypeCorrect == Spec => []TypeOK
<1>1. Spec => []Typed
  BY TypedInit, TypedStep, PTL DEF Spec
<1> QED
  BY <1>1, PTL DEF Typed

-----------------------------------------------------------------------------
(* Wired and CleanAfterDelete *)

Step(c) ==
    \/ Begin(c) \/ Index(c) \/ SetupStep(c) \/ SetupDone(c)
    \/ EnableForwarding(c) \/ AppendRule(c) \/ Stop(c)
    \/ BeginDelete(c) \/ ListTaps(c) \/ DeleteFilters(c) \/ DeleteQdiscs(c) \/ DeleteTap(c)
    \/ EndDelete(c)

\* The container that takes a step is the only one in the pod.
LEMMA OthersIdle ==
    ASSUME PodInv, OnePerPod, NEW c \in Containers, Step(c), NEW d \in Containers, d # c
    PROVE  /\ pc[d] = "idle" /\ pc'[d] = "idle" /\ ~tapDev[d] /\ ~tapDev'[d]
           /\ err'[d] = err[d]
<1> USE DEF Goto, PodInv, Typed, TypeOK
<1>1. CASE Begin(c)
  BY <1>1 DEF Begin, GivenToRunning
<1>2. CASE Index(c) \/ SetupStep(c) \/ SetupDone(c) \/ EnableForwarding(c) \/ AppendRule(c)
  <2>1. pc[d] = "idle" /\ ~tapDev[d]
    BY <1>2 DEF Index, SetupStep, SetupDone, EnableForwarding, AppendRule, Alone, GivenToRunning
  <2> QED
    BY <1>2, <2>1 DEF Index, SetupStep, SetupDone, EnableForwarding, AppendRule, GiveTap, RunWithoutNet
<1>3. CASE Stop(c) \/ BeginDelete(c) \/ ListTaps(c) \/ EndDelete(c)
  <2>1. pc[d] = "idle" /\ ~tapDev[d]
    BY <1>3 DEF Stop, BeginDelete, ListTaps, EndDelete, Alone, GivenToRunning
  <2> QED
    BY <1>3, <2>1 DEF Stop, BeginDelete, ListTaps, EndDelete, CleanupFails
<1>4. CASE DeleteFilters(c) \/ DeleteQdiscs(c) \/ DeleteTap(c)
  <2>1. pc[d] = "idle" /\ ~tapDev[d]
    BY <1>4 DEF DeleteFilters, DeleteQdiscs, DeleteTap, Alone, GivenToRunning
  <2> QED
    BY <1>4, <2>1 DEF DeleteFilters, DeleteQdiscs, DeleteTap, Clean, CleanupFails
<1> QED
  BY <1>1, <1>2, <1>3, <1>4 DEF Step

\* What is to be shown of a step of c, the others being idle.
LEMMA PodOfOne ==
    ASSUME PodInv, Typed', OnePerPod, NEW c \in Containers, Step(c),
           tapDev'[c] => pc'[c] = "running",
           pc'[c] \in SetupPcs => \A k \in 1 .. Len(Plan(c)) : k < n'[c] => Plan(c)[k] \in have',
           tapDev'[c] =>
               IF c \in Static THEN "tap" \in have' /\ forward' /\ rules' > 0 ELSE have' = Objects,
           pc'[c] = "nat" => c \in Static /\ forward' /\ n'[c] > Len(Plan(c)),
           Attached', TapFirst',
           ~err'[c] => /\ pc'[c] = "deltap" => have' \subseteq {"tap"}
                       /\ pc'[c] = "end" => have' \subseteq (IF spoilt' THEN {"qeth", "feth"} ELSE {})
                       /\ pc'[c] = "idle" => have' \subseteq (IF spoilt' THEN {"qeth", "feth"} ELSE {}),
           err'[c] => spoilt', spoilt => spoilt'
    PROVE  PodInv'
<1>1. \A d \in Containers : d # c => pc'[d] = "idle" /\ ~tapDev'[d] /\ err'[d] = err[d]
  BY OthersIdle
<1>2. Alone' /\ GivenToRunning'
  BY <1>1 DEF Alone, GivenToRunning
<1>3. PlanMade' /\ Forwarded'
  BY <1>1 DEF PlanMade, Forwarded, SetupPcs
<1>4. Wired'
  BY <1>1 DEF Wired
<1>5. Removed' /\ ErrSpoils'
  BY <1>1 DEF Removed, ErrSpoils, PodInv
<1>6. CleanAfterDelete'
  BY DEF CleanAfterDelete, AllDeleted
<1> QED
  BY <1>2, <1>3, <1>4, <1>5, <1>6 DEF PodInv

\* Setting up the network of the only container.
LEMMA PodSetup ==
    ASSUME PodInv, Typed', OnePerPod, NEW c \in Containers,
           \/ Begin(c) \/ Index(c) \/ SetupStep(c) \/ SetupDone(c)
           \/ EnableForwarding(c) \/ AppendRule(c)
    PROVE  PodInv'
<1>0. /\ Step(c) /\ Typed /\ Attached /\ TapFirst /\ (err[c] => spoilt)
      /\ (tapDev[c] => pc[c] = "running")
      /\ pc[c] \in SetupPcs => \A k \in 1 .. Len(Plan(c)) : k < n[c] => Plan(c)[k] \in have
      /\ pc[c] = "nat" => c \in Static /\ forward /\ n[c] > Len(Plan(c))
  BY DEF Step, PodInv, ErrSpoils, GivenToRunning, PlanMade, Forwarded
<1> USE DEF Goto, Typed, TypeOK, SetupPcs
<1>1. CASE RunWithoutNet(c) /\ pc[c] # "running"
  <2>1. /\ pc'[c] = "running" /\ ~tapDev'[c] /\ UNCHANGED <<have, spoilt, err>>
    BY <1>0, <1>1 DEF RunWithoutNet
  <2>2. Attached' /\ TapFirst'
    BY <1>0, <2>1 DEF Attached, TapFirst
  <2> QED
    BY <1>0, <2>1, <2>2, PodOfOne
<1>2. ASSUME pc'[c] \in SetupPcs, UNCHANGED <<have, spoilt, err, tapDev>>, pc[c] # "running",
             pc'[c] = "nat" => c \in Static /\ forward' /\ n'[c] > Len(Plan(c)),
             \A k \in 1 .. Len(Plan(c)) : k < n'[c] => Plan(c)[k] \in have
      PROVE  PodInv'
  <2>1. Attached' /\ TapFirst' /\ ~tapDev'[c]
    BY <1>0, <1>2 DEF Attached, TapFirst
  <2> QED
    BY <1>0, <1>2, <2>1, PodOfOne
<1>3. CASE Begin(c)
  <2>1. pc'[c] = "index" /\ n'[c] = 1 /\ UNCHANGED <<have, spoilt, err, tapDev>> /\ pc[c] # "running"
    BY <1>0, <1>3 DEF Begin
  <2>2. \A k \in 1 .. Len(Plan(c)) : ~(k < n'[c])
    BY <2>1, PlanValues
  <2> QED
    BY <1>2, <2>1, <2>2
<1>4. CASE Index(c)
  <2>1. /\ pc[c] = "index"
        /\ RunWithoutNet(c) \/ (pc'[c] = "setup" /\ UNCHANGED <<have, n, spoilt, err, tapDev>>)
    BY <1>0, <1>4 DEF Index
  <2>2. CASE RunWithoutNet(c)
    BY <1>1, <2>1, <2>2
  <2>3. CASE pc'[c] = "setup" /\ UNCHANGED <<have, n, spoilt, err, tapDev>>
    BY <1>0, <1>2, <2>1, <2>3
  <2> QED
    BY <2>1, <2>2, <2>3
<1>5. CASE SetupStep(c)
  <2>1. pc[c] = "setup" /\ n[c] \in 1 .. Len(Plan(c))
    BY <1>0, <1>5, PlanValues DEF SetupStep
  <2>2. CASE RunWithoutNet(c)
    BY <1>1, <2>1, <2>2
  <2>3. CASE /\ Possible(Plan(c)[n[c]])
             /\ have' = have \cup {Plan(c)[n[c]]}
             /\ n' = [n EXCEPT ![c] = @ + 1]
             /\ UNCHANGED <<forward, rules, pc, tapDev, err, spoilt>>
    <3>1. n'[c] = n[c] + 1 /\ pc'[c] = "setup" /\ ~tapDev'[c]
      BY <1>0, <2>1, <2>3
    <3>2. ASSUME NEW k \in 1 .. Len(Plan(c)), k < n'[c] PROVE Plan(c)[k] \in have'
      <4>1. k = n[c] \/ k < n[c]
        BY <2>1, <3>1, <3>2, PlanValues
      <4> QED
        BY <1>0, <2>1, <2>3, <4>1
    <3>3. TapFirst'
      <4>1. CASE n[c] = 1
        BY <2>3, <4>1, PlanValues DEF TapFirst
      <4>2. CASE n[c] # 1
        <5>0. 1 \in 1 .. Len(Plan(c)) /\ 1 < n[c] /\ Plan(c)[1] = "tap"
          BY <2>1, <4>2, PlanValues
        <5>1. "tap" \in have
          BY <1>0, <2>1, <5>0, Zenon
        <5> QED
          BY <2>3, <5>1 DEF TapFirst
      <4> QED
        BY <4>1, <4>2
    <3>4. Attached'
      <4>1. Plan(c)[n[c]] \in Objects /\ Needs(Plan(c)[n[c]]) \subseteq have
        BY <2>1, <2>3, PlanValues DEF Possible
      <4>2. ASSUME "tap" \notin have, Plan(c)[n[c]] # "tap" PROVE Plan(c)[n[c]] \in {"qeth", "feth"}
        BY <1>0, <4>1, <4>2 DEF Objects, Needs, Attached
      <4> QED
        BY <1>0, <2>3, <4>2 DEF Attached
    <3> QED
      BY <1>0, <2>3, <3>1, <3>2, <3>3, <3>4, PodOfOne
  <2> QED
    BY <1>5, <2>2, <2>3 DEF SetupStep
<1>6. ASSUME pc[c] \in {"setup", "nat"}, n[c] > Len(Plan(c)), GiveTap(c),
             c \in Static => forward' /\ rules' > 0
      PROVE  PodInv'
  <2>1. \A k \in 1 .. Len(Plan(c)) : Plan(c)[k] \in have
    BY <1>0, <1>6, PlanValues
  <2>2. IF c \in Static THEN "tap" \in have ELSE have = Objects
    <3>0. 1 \in 1 .. Len(Plan(c)) /\ Plan(c)[1] = "tap"
      BY PlanValues
    <3>1. "tap" \in have
      BY <2>1, <3>0
    <3>2. ASSUME c \notin Static PROVE have = Objects
      <4>0. /\ Len(Plan(c)) = 5 /\ Plan(c)[2] = "qtap" /\ Plan(c)[3] = "qeth"
            /\ Plan(c)[4] = "ftap" /\ Plan(c)[5] = "feth"
        BY <3>2, PlanValues
      <4>1. {"tap", "qtap", "qeth", "ftap", "feth"} \subseteq have
        BY <2>1, <3>1, <4>0
      <4> QED
        BY <1>0, <4>1 DEF Objects
    <3> QED
      BY <3>1, <3>2
  <2>3. pc'[c] = "running" /\ have' = have /\ Attached' /\ TapFirst' /\ UNCHANGED <<err, spoilt>>
    BY <1>0, <1>6 DEF GiveTap, Attached, TapFirst
  <2> QED
    BY <1>0, <1>6, <2>2, <2>3, PodOfOne
<1>7. CASE SetupDone(c)
  BY <1>1, <1>6, <1>7 DEF SetupDone
<1>8. CASE EnableForwarding(c)
  <2>1. pc[c] = "setup" /\ c \in Static /\ n[c] > Len(Plan(c))
    BY <1>8 DEF EnableForwarding
  <2>2. CASE RunWithoutNet(c)
    BY <1>1, <2>1, <2>2
  <2>3. CASE /\ forward' = TRUE
             /\ Goto(c, "nat")
             /\ UNCHANGED <<have, rules, n, tapDev, err, spoilt>>
    <3>1. pc'[c] = "nat" /\ n' = n
      BY <1>0, <2>3
    <3> QED
      BY <1>0, <1>2, <2>1, <2>3, <3>1
  <2> QED
    BY <1>8, <2>2, <2>3 DEF EnableForwarding
<1>9. CASE AppendRule(c)
  <2>1. pc[c] = "nat" /\ c \in Static /\ forward /\ n[c] > Len(Plan(c))
    BY <1>0, <1>9 DEF AppendRule
  <2>2. CASE RunWithoutNet(c)
    BY <1>1, <2>1, <2>2
  <2>3. CASE rules' = rules + 1 /\ GiveTap(c) /\ UNCHANGED forward
    <3>1. rules' > 0
      BY <1>0, <2>3
    <3> QED
      BY <1>6, <2>1, <2>3, <3>1
  <2> QED
    BY <1>9, <2>2, <2>3 DEF AppendRule
<1> QED
  BY <1>3, <1>4, <1>5, <1>7, <1>8, <1>9

\* Deleting the only container: what each removal leaves, error or not.
LEMMA PodDelete ==
    ASSUME PodInv, Typed', OnePerPod, NEW c \in Containers,
           \/ Stop(c) \/ BeginDelete(c) \/ ListTaps(c) \/ EndDelete(c)
           \/ DeleteFilters(c) \/ DeleteQdiscs(c) \/ DeleteTap(c)
    PROVE  PodInv'
<1>0. /\ Step(c) /\ Typed /\ Attached /\ TapFirst /\ (err[c] => spoilt)
      /\ (tapDev[c] => pc[c] = "running")
      /\ ~err[c] =>
           /\ pc[c] = "deltap" => have \subseteq {"tap"}
           /\ pc[c] = "end" => have \subseteq (IF spoilt THEN {"qeth", "feth"} ELSE {})
  BY DEF Step, PodInv, ErrSpoils, GivenToRunning, Removed
<1> USE DEF Goto, Typed, TypeOK, SetupPcs
<1>1. CASE Stop(c) \/ BeginDelete(c)
  <2>1. /\ pc'[c] \in {"stopped", "list"} /\ ~tapDev'[c] /\ UNCHANGED <<have, spoilt>>
        /\ err'[c] => err[c]
    BY <1>0, <1>1 DEF Stop, BeginDelete
  <2>2. Attached' /\ TapFirst'
    BY <1>0, <2>1 DEF Attached, TapFirst
  <2> QED
    BY <1>0, <2>1, <2>2, PodOfOne
<1>2. CASE ListTaps(c)
  <2>1. ~tapDev'[c] /\ have' = have
    BY <1>0, <1>2 DEF ListTaps
  <2>2. \/ pc'[c] = "filters" /\ UNCHANGED <<err, spoilt>>
        \/ pc'[c] = "end" /\ "tap" \notin have /\ UNCHANGED <<err, spoilt>>
        \/ pc'[c] = "end" /\ err'[c] /\ spoilt'
    BY <1>0, <1>2 DEF ListTaps, CleanupFails
  <2>3. Attached' /\ TapFirst'
    BY <1>0, <2>1, <2>2 DEF Attached, TapFirst
  <2>4. "tap" \notin have => have \subseteq (IF spoilt THEN {"qeth", "feth"} ELSE {})
    BY <1>0 DEF Attached, TapFirst
  <2> QED
    BY <1>0, <2>1, <2>2, <2>3, <2>4, PodOfOne
<1>3. CASE EndDelete(c)
  <2>1. /\ pc[c] = "end" /\ pc'[c] \in {"idle", "stopped"} /\ ~tapDev'[c] /\ UNCHANGED <<have, err, spoilt>>
    BY <1>0, <1>3 DEF EndDelete
  <2>2. Attached' /\ TapFirst'
    BY <1>0, <2>1 DEF Attached, TapFirst
  <2> QED
    BY <1>0, <2>1, <2>2, PodOfOne
<1>4. ASSUME NEW S, NEW P, NEW to \in {"qdiscs", "deltap", "end"}, Clean(c, S, P, to), pc[c] # "running",
             S \in {{"ftap", "feth"}, {"qtap", "qeth"}, {"tap"}}, P \subseteq S, "tap" \notin P,
             ~err[c] => /\ to = "deltap" => Without(S) \subseteq {"tap"}
                        /\ to = "end" => Without(S) = {}
                        /\ "tap" \in S => Without(S) = {}
      PROVE  PodInv'
  <2>1. ~tapDev'[c] /\ pc'[c] = to
    BY <1>0, <1>4 DEF Clean
  <2>2. CASE have' = Without(S) /\ UNCHANGED <<err, spoilt>>
    <3>1. Attached'
      BY <1>0, <1>4, <2>2 DEF Attached, Without, Objects
    <3>2. TapFirst'
      BY <1>0, <1>4, <2>2 DEF TapFirst, Without
    <3> QED
      BY <1>0, <1>4, <2>1, <2>2, <3>1, <3>2, PodOfOne
  <2>3. CASE err'[c] /\ spoilt' /\ (have' = Without({}) \/ have' = Without(P))
    <3>1. Attached'
      BY <1>0, <1>4, <2>3 DEF Attached, Without, Objects
    <3>2. TapFirst'
      BY <2>3 DEF TapFirst
    <3> QED
      BY <1>0, <1>4, <2>1, <2>3, <3>1, <3>2, PodOfOne
  <2> QED
    BY <1>0, <1>4, <2>2, <2>3 DEF Clean, CleanupFails
<1>5. CASE DeleteFilters(c)
  <2>1. pc[c] # "running" /\ Clean(c, {"ftap", "feth"}, {"ftap"}, "qdiscs")
    BY <1>5 DEF DeleteFilters
  <2>2. "qdiscs" \in {"qdiscs", "deltap", "end"} /\ {"ftap"} \subseteq {"ftap", "feth"}
        /\ "tap" \notin {"ftap", "feth"} /\ "tap" \notin {"ftap"}
    OBVIOUS
  <2> QED
    BY <1>4, <2>1, <2>2, Zenon
<1>6. CASE DeleteQdiscs(c)
  <2>1. Without({"qtap", "qeth"}) \subseteq {"tap"}
    BY <1>0 DEF Without, Objects
  <2>2. pc[c] # "running" /\ Clean(c, {"qtap", "qeth"}, {"qtap"}, "deltap")
    BY <1>6 DEF DeleteQdiscs
  <2>3. "deltap" \in {"qdiscs", "deltap", "end"} /\ {"qtap"} \subseteq {"qtap", "qeth"}
        /\ "tap" \notin {"qtap", "qeth"} /\ "tap" \notin {"qtap"}
    OBVIOUS
  <2> QED
    BY <1>4, <2>1, <2>2, <2>3, Zenon
<1>7. CASE DeleteTap(c)
  <2>1. ~err[c] => Without({"tap"}) = {}
    BY <1>0, <1>7 DEF Without, DeleteTap
  <2>2. pc[c] # "running" /\ Clean(c, {"tap"}, {}, "end")
    BY <1>7 DEF DeleteTap
  <2>3. "end" \in {"qdiscs", "deltap", "end"} /\ {} \subseteq {"tap"} /\ "tap" \notin {} /\ "end" # "deltap"
        /\ {"tap"} \in {{"ftap", "feth"}, {"qtap", "qeth"}, {"tap"}}
    OBVIOUS
  <2>4. ~err[c] => /\ "end" = "deltap" => Without({"tap"}) \subseteq {"tap"}
                   /\ "end" = "end" => Without({"tap"}) = {}
                   /\ "tap" \in {"tap"} => Without({"tap"}) = {}
    BY <2>1, <2>3, Zenon
  <2> QED
    BY <1>4, <2>2, <2>3, <2>4
<1> QED
  BY <1>1, <1>2, <1>3, <1>5, <1>6, <1>7

\* PodInv is an invariant when the containers of the pod come one after another.
LEMMA PodInvariant ==
    ASSUME OnePerPod PROVE Spec => []PodInv
<1>1. Init => PodInv
  <2> SUFFICES ASSUME Init PROVE PodInv
    OBVIOUS
  <2>1. Typed
    BY TypedInit
  <2>2. Alone /\ GivenToRunning /\ PlanMade /\ Forwarded /\ Wired /\ Removed /\ ErrSpoils
    BY DEF Init, Alone, GivenToRunning, PlanMade, Forwarded, Wired, Removed, ErrSpoils, SetupPcs
  <2>3. Attached /\ TapFirst /\ CleanAfterDelete
    BY DEF Init, Attached, TapFirst, CleanAfterDelete
  <2> QED
    BY <2>1, <2>2, <2>3 DEF PodInv
<1>2. PodInv /\ [Next]_vars => PodInv'
  <2> SUFFICES ASSUME PodInv, [Next]_vars PROVE PodInv'
    OBVIOUS
  <2>1. Typed'
    BY TypedStep DEF PodInv
  <2>2. CASE UNCHANGED vars
    BY <2>2 DEF vars, PodInv, Typed, TypeOK, Alone, GivenToRunning, PlanMade, Forwarded, Wired, Attached, TapFirst,
                Removed, ErrSpoils, CleanAfterDelete, AllDeleted
  <2> QED
    BY <2>1, <2>2, PodSetup, PodDelete, PodCases
<1> QED
  BY <1>1, <1>2, PTL DEF Spec

\* A guest that SetupNet gave the tap device stays connected to the pod's
\* interface, with the static network by forwarding and a NAT rule, wherever the setups and deletes of earlier containers stopped.
THEOREM GuestWired ==
    ASSUME OnePerPod PROVE Spec => []Wired
<1>1. PodInv => Wired
  BY DEF PodInv
<1> QED
  BY <1>1, PodInvariant, PTL

\* cleanupNetwork leaves no tap device, qdisc or filter in the namespace of the
\* pod, or no tap device if it met an error.  What setNATRule added is not part of
\* it: no delete removes that.
THEOREM DeletedClean ==
    ASSUME OnePerPod PROVE Spec => []CleanAfterDelete
<1>1. PodInv => CleanAfterDelete
  BY DEF PodInv
<1> QED
  BY <1>1, PodInvariant, PTL

=============================================================================
