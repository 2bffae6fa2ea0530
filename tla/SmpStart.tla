------------------------------ MODULE SmpStart ------------------------------
(***************************************************************************)
(* How the application processors come up and what they do when no user    *)
(* task runs on them (kernel/src/smp.rs).  The bootstrap processor starts  *)
(* them one by one through one parameter block in low memory; one may come *)
(* up late, after the wait for it timed out.  An online processor takes    *)
(* jobs of the work queue, or, with four of them, processor 1 is kept for  *)
(* the network.                                                            *)
(***************************************************************************)
EXTENDS Integers, Sequences, SequencesExt, FiniteSets, Tables

CONSTANTS
    Bsp,           \* APIC id of the bootstrap processor
    ApicTables,    \* what ACPI or the MP table may list: sequences of APIC ids
    MAX_CPUS,      \* processors the kernel has room for
    NetCpus        \* processors from which one is reserved for the network (4)

(* Firmware lists a processor once.  With fewer than three processors none is
   left for the work queue when one is reserved.  *)
ASSUME SmpAssumption ==
    /\ \A t \in ApicTables : t \in Seq(Nat) /\ \A i, j \in 1..Len(t) : t[i] = t[j] => i = j
    /\ MAX_CPUS \in Nat \ {0} /\ NetCpus \in Nat /\ NetCpus >= 3

VARIABLES
    ids,           \* CPU_APIC_IDS: the APIC id of every logical processor, the first is 0
    bsp,           \* init: [pc, slot, before]
    param_stack,   \* the stack in the parameter block, a slot
    ap,            \* APIC id -> [pc, stack]
    ap_online,     \* AP_ONLINE
    online,        \* ONLINE_MASK
    work,          \* length of WORK_QUEUE
    net_pending    \* NETWORK_WORK_PENDING

smpVars == <<ids, bsp, param_stack, ap, ap_online, online, work, net_pending>>

NoStack == 0       \* slot 0: the stack the bootstrap processor runs on
Off == [pc |-> "off", stack |-> NoStack]

SmpInit ==
    /\ ids = <<Bsp>> /\ bsp = [pc |-> "discover", slot |-> 1, before |-> 0]
    /\ param_stack = NoStack /\ ap = NoEntries /\ ap_online = 1 /\ online = {0} /\ work = 0 /\ net_pending = FALSE

SlotOf(a) == (CHOOSE i \in DOMAIN ids : ids[i] = a) - 1
IsNetwork(slot) == ap_online >= NetCpus /\ slot = 1

(***************************************************************************)
(* init on the bootstrap processor                                         *)
(***************************************************************************)
\* The enabled entries of the ACPI MADT or the MP table, as many as fit.
Listed(table) == SubSeq(table, 1, AtMost(Len(table), MAX_CPUS))

\* The tables do not promise to list the bootstrap processor first, or at all.
Numbered(table) == <<Bsp>> \o Omitting(Listed(table), {Bsp})

discover(table) ==
    /\ bsp.pc = "discover"
    /\ LET found == Numbered(table) IN
         /\ ids' = SubSeq(found, 1, AtMost(Len(found), MAX_CPUS))
         /\ ap' = [a \in Range(ids') \ {Bsp} |-> Off]
    /\ bsp' = [bsp EXCEPT !.pc = "start"]
    /\ UNCHANGED <<param_stack, ap_online, online, work, net_pending>>

\* INIT and the first SIPI; the INIT may not get through, the SIPI may be lost.
start_ap ==
    /\ bsp.pc = "start" /\ bsp.slot < Len(ids) /\ param_stack' = bsp.slot
    /\ LET a == ids[bsp.slot + 1] IN
         \/ bsp' = [bsp EXCEPT !.pc = "sipi", !.before = ap_online] /\ ap' \in {ap, [ap EXCEPT ![a].pc = "trampoline"]}
         \/ bsp' = [bsp EXCEPT !.pc = "report"] /\ UNCHANGED ap
    /\ UNCHANGED <<ids, ap_online, online, work, net_pending>>

\* A processor that has left the wait-for-SIPI state ignores the second one.
second_sipi ==
    /\ bsp.pc = "sipi" /\ bsp' = [bsp EXCEPT !.pc = "wait"]
    /\ LET a == ids[bsp.slot + 1] IN
         ap' \in {ap, IF ap_online = bsp.before /\ ap[a].pc = "off" THEN [ap EXCEPT ![a].pc = "trampoline"] ELSE ap}
    /\ UNCHANGED <<ids, param_stack, ap_online, online, work, net_pending>>

ap_is_online ==
    /\ bsp.pc = "wait" /\ ap_online > bsp.before /\ bsp' = [bsp EXCEPT !.pc = "start", !.slot = @ + 1]
    /\ UNCHANGED <<ids, param_stack, ap, ap_online, online, work, net_pending>>

\* Mutant: the next processor is started after a timeout.
ap_timed_out_next ==
    /\ bsp.pc = "wait" /\ ap_online = bsp.before /\ bsp' = [bsp EXCEPT !.pc = "start", !.slot = @ + 1]
    /\ UNCHANGED <<ids, param_stack, ap, ap_online, online, work, net_pending>>

\* The parameters are shared: a late processor must not take the next stack.
ap_timed_out ==
    /\ bsp.pc = "wait" /\ ap_online = bsp.before /\ bsp' = [bsp EXCEPT !.pc = "report"]
    /\ UNCHANGED <<ids, param_stack, ap, ap_online, online, work, net_pending>>

\* verify_parallel_work: one job for every processor that is online by now.
submit_work ==
    /\ bsp.pc = "report" \/ (bsp.pc = "start" /\ bsp.slot = Len(ids))
    /\ work' = work + ap_online - 1 /\ bsp' = [bsp EXCEPT !.pc = "run"]
    /\ UNCHANGED <<ids, param_stack, ap, ap_online, online, net_pending>>

(***************************************************************************)
(* An application processor                                                *)
(***************************************************************************)
ap_trampoline(a) ==
    /\ ap[a].pc = "trampoline" /\ ap' = [ap EXCEPT ![a] = [pc |-> "entry", stack |-> param_stack]]
    /\ UNCHANGED <<ids, bsp, param_stack, ap_online, online, work, net_pending>>

ap_entry(a) ==
    /\ ap[a].pc = "entry" /\ ap' = [ap EXCEPT ![a].pc = "awake"]
    /\ online' = online \cup {SlotOf(a)} /\ ap_online' = ap_online + 1
    /\ UNCHANGED <<ids, bsp, param_stack, work, net_pending>>

\* run_pending_work: at most one job, then sti and hlt.
run_pending_work(a) ==
    /\ ap[a].pc = "awake" /\ ~IsNetwork(SlotOf(a))
    /\ ap' = [ap EXCEPT ![a].pc = "halted"] /\ work' = IF work = 0 THEN 0 ELSE work - 1
    /\ UNCHANGED <<ids, bsp, param_stack, ap_online, online, net_pending>>

\* run_network_worker takes the request before it works.
worker_takes(a) ==
    /\ ap[a].pc = "awake" /\ IsNetwork(SlotOf(a)) /\ net_pending' = FALSE
    /\ IF net_pending THEN ap' = [ap EXCEPT ![a].pc = "network"] ELSE ap' = [ap EXCEPT ![a].pc = "halted"]
    /\ UNCHANGED <<ids, bsp, param_stack, ap_online, online, work>>

\* Mutant: the request is cleared when the work is done.
worker_works_late(a) ==
    /\ ap[a].pc = "network" /\ \E again \in BOOLEAN : net_pending' = again
    /\ \E pc \in {"awake", "halted"} : ap' = [ap EXCEPT ![a].pc = pc]
    /\ UNCHANGED <<ids, bsp, param_stack, ap_online, online, work>>

\* The bottom half stops early, or a waiter cannot be woken because the kernel
\* lock is taken: the request is put back.  The burst of passes is bounded.
worker_works(a) ==
    /\ ap[a].pc = "network" /\ \E again \in BOOLEAN : net_pending' = (net_pending \/ again)
    /\ \E pc \in {"awake", "halted"} : ap' = [ap EXCEPT ![a].pc = pc]
    /\ UNCHANGED <<ids, bsp, param_stack, ap_online, online, work>>

\* Mutant: only a request's interrupt ends the halt.
ap_interrupt_ipi(a) ==
    /\ ap[a].pc = "halted" /\ net_pending /\ ap' = [ap EXCEPT ![a].pc = "awake"]
    /\ UNCHANGED <<ids, bsp, param_stack, ap_online, online, work, net_pending>>

\* The local timer, or the interrupt of submit or request_network_work.  One
\* that comes between the last look at the work and hlt ends no halt.
ap_interrupt(a) ==
    /\ ap[a].pc = "halted" /\ ap' = [ap EXCEPT ![a].pc = "awake"]
    /\ UNCHANGED <<ids, bsp, param_stack, ap_online, online, work, net_pending>>

request_network_work ==
    /\ bsp.pc = "run" /\ ~net_pending /\ net_pending' = TRUE
    /\ UNCHANGED <<ids, bsp, param_stack, ap, ap_online, online, work>>

ApLoop(a) == run_pending_work(a) \/ worker_takes(a) \/ worker_works(a) \/ ap_interrupt(a)

SmpNext ==
    \/ \E table \in ApicTables : discover(table)
    \/ start_ap \/ second_sipi \/ ap_is_online \/ ap_timed_out \/ submit_work \/ request_network_work
    \/ \E a \in DOMAIN ap : ap_trampoline(a) \/ ap_entry(a) \/ ApLoop(a)

\* An online processor runs, and its timer ticks.  A processor that was sent
\* its SIPI owes nothing.
Apics == UNION {Range(t) : t \in ApicTables} \ {Bsp}
SmpFairness == \A a \in Apics : WF_smpVars(a \in DOMAIN ap /\ ApLoop(a))

SmpSpec == SmpInit /\ [][SmpNext]_smpVars /\ SmpFairness

(***************************************************************************)
(* Properties                                                              *)
(***************************************************************************)
Running == {a \in DOMAIN ap : ap[a].pc \notin {"off", "trampoline"}}

\* Processors run on stacks of their own, also one that comes up after init
\* gave up on it (the break in init; PARAM_STACK is shared).
StacksDistinct ==
    /\ \A a, b \in Running : ap[a].stack = ap[b].stack => a = b
    /\ \A a \in Running : ap[a].stack = SlotOf(a) /\ SlotOf(a) # 0

\* The processor that is reserved for the network is online, and another one
\* is left for the work queue: the logical numbers are given out before the
\* processors start, the reservation looks only at how many have
\* (network_cpu_index).
NetworkCpuOnline == ap_online >= NetCpus => 1 \in online /\ online \ {0, 1} # {}

\* A queued job is run, although the interrupt that announces it may come
\* just before the processor halts, and although processor 1 may turn to the
\* network meanwhile (submit, the loop of ap_entry).
JobsRun == []<>(work = 0)

\* A request for network work is taken, and by a worker that then looks for
\* work: also one made while the worker is at work (NETWORK_WORK_PENDING in run_network_worker).
NetworkRequestTaken ==
    /\ []<>(ap_online < NetCpus \/ ~net_pending)
    /\ [][net_pending /\ ~net_pending' => \E a \in DOMAIN ap : ap[a].pc # "network" /\ ap'[a].pc = "network"]_smpVars
=============================================================================
