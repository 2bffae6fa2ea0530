------------------------------ MODULE Network ------------------------------
(***************************************************************************)
(* Sockets: the system calls of syscalls/handler.rs, the socket table and  *)
(* the handle table of net/stack.rs, the bottom half of drivers/net/mod.rs *)
(* that runs without the kernel lock, and the keyed wake-ups between them. *)
(*                                                                         *)
(* A call is one step under the kernel lock.  It takes NET_STACK with      *)
(* try_lock: when the bottom half of another processor owns the stack, the *)
(* call blocks and is executed again when its socket is reported ready.    *)
(* The bottom half is three steps: it takes the stack; it processes        *)
(* packets, samples the readiness of every socket and lets the stack go;   *)
(* it hands the sample to the waiters, for which it needs the kernel lock  *)
(* (try_lock again).                                                       *)
(*                                                                         *)
(* A descriptor is identified with the socket id it refers to.  smoltcp is *)
(* external: a handle is the state of its TCP socket and whether it holds  *)
(* received data.                                                          *)
(***************************************************************************)
EXTENDS Tables, FiniteSets

CONSTANTS
    NSock,       \* socket ids used
    Callers,     \* threads of the process
    Waiters,     \* those of them that do more than close
    MaxPackets   \* packets that change the state of a socket

SockIds == 1..NSock

VARIABLES
    handles,   \* NetStack.handles: id -> smoltcp socket
    sockets,     \* SOCKET_TABLE: id -> logical state
    openFds,   \* ids with a descriptor
    removals,  \* PENDING_SOCKET_REMOVALS
    bottom,    \* the bottom half: "idle", "polling" (owns NET_STACK), "waking"
    ready,     \* READY_READ and READY_WRITE
    caller,    \* thread -> the call it executes again and what it waits for
    packets    \* packets processed

netVars == <<handles, sockets, openFds, removals, bottom, ready, caller, packets>>

Idle == [call |-> "none", sock |-> 0, wait |-> "no", started |-> FALSE, syns |-> 0]

NetInit ==
    /\ handles = NoEntries
    /\ sockets = NoEntries
    /\ openFds = {}
    /\ removals = {}
    /\ bottom = "idle"
    /\ ready = {}
    /\ caller = [t \in Callers |-> Idle]
    /\ packets = 0

\* smoltcp's predicates.
CanRecv(h) == h.data
MayRecv(h) == h.st = "established"
Accepted(h) == h.st \in {"established", "closewait"}

Contended == bottom = "polling"

(***************************************************************************)
(* Blocking: the wait reason of syscall_handler_locked, the masks of       *)
(* prepare_network_wait.                                                   *)
(***************************************************************************)
WaitReason(call) ==
    CASE call = "poll" -> "Poll"
      [] call \in {"recv", "send", "accept", "connect"} -> "Socket"
      [] OTHER -> "Generic"

prepare_network_wait(c) ==
    IF c.wait = "Generic" THEN {}
    ELSE {<<c.sock, IF c.call \in {"send", "connect"} THEN "w" ELSE "r">>}

block_and_restart(t, call, s, started, syns) ==
    caller' = [caller EXCEPT ![t] =
        [call |-> call, sock |-> s, wait |-> WaitReason(call), started |-> started, syns |-> syns]]

NetReturn(t) == caller' = [caller EXCEPT ![t] = Idle]

\* The thread executes `call` on s, for the first time or again.
NetCalls(t, call, s) ==
    /\ caller[t].wait = "no"
    /\ caller[t].call = "none" \/ (caller[t].call = call /\ caller[t].sock = s)
    /\ s \in openFds

KeepNet == UNCHANGED <<handles, sockets, openFds, removals, bottom, ready, packets>>

Blocks(t, call, s) == block_and_restart(t, call, s, caller[t].started, caller[t].syns) /\ KeepNet

\* A restarted call whose descriptor another thread closed.
ebadf(t) ==
    /\ caller[t].wait = "no" /\ caller[t].call # "none" /\ caller[t].sock \notin openFds
    /\ NetReturn(t) /\ KeepNet

(***************************************************************************)
(* socket, close, bind, listen, shutdown.                                  *)
(***************************************************************************)
FreeIds == SockIds \ DOMAIN handles

\* NET_STACK.lock() spins until the bottom half lets go.
sys_socket(t) ==
    /\ caller[t] = Idle /\ ~Contended /\ FreeIds # {}
    /\ LET id == Least(FreeIds) IN
       IF id \in DOMAIN sockets
       THEN UNCHANGED <<handles, sockets, openFds>>
       ELSE /\ handles' = Put(handles, id, [st |-> "closed", data |-> FALSE])
            /\ sockets' = Put(sockets, id, "Created")
            /\ openFds' = openFds \cup {id}
    /\ UNCHANGED <<removals, bottom, ready, caller, packets>>

\* Mutant: the handle is taken out at once when the stack is free, and queued
\* as well.
close_twice(t, s) ==
    /\ caller[t] = Idle /\ s \in openFds
    /\ handles' = IF Contended THEN handles ELSE Drop(handles, {s})
    /\ removals' = removals \cup {s} /\ sockets' = Drop(sockets, {s}) /\ openFds' = openFds \ {s}
    /\ UNCHANGED <<bottom, ready, caller, packets>>

\* close_descriptor: the id stays taken until the stack removes the handle.
close_descriptor(t, s) ==
    /\ caller[t] = Idle /\ s \in openFds
    /\ removals' = removals \cup {s} /\ sockets' = Drop(sockets, {s}) /\ openFds' = openFds \ {s}
    /\ UNCHANGED <<handles, bottom, ready, caller, packets>>

sys_bind(t, s) ==
    /\ NetCalls(t, "bind", s)
    /\ \/ Contended /\ Blocks(t, "bind", s)
       \/ /\ ~Contended /\ NetReturn(t)
          /\ IF handles[s].st = "closed"
             THEN handles' = [handles EXCEPT ![s].st = "listen"] /\ sockets' = [sockets EXCEPT ![s] = "Bound"]
             ELSE UNCHANGED <<handles, sockets>>
          /\ UNCHANGED <<openFds, removals, bottom, ready, packets>>

sys_listen(t, s) ==
    /\ caller[t] = Idle /\ s \in openFds /\ sockets[s] = "Bound"
    /\ sockets' = [sockets EXCEPT ![s] = "Listening"]
    /\ UNCHANGED <<handles, openFds, removals, bottom, ready, caller, packets>>

sys_shutdown(t, s) ==
    /\ caller[t] = Idle /\ s \in openFds
    /\ sockets' = [sockets EXCEPT ![s] = "Closed"]
    /\ UNCHANGED <<handles, openFds, removals, bottom, ready, caller, packets>>

(***************************************************************************)
(* accept4: the established listener becomes the connection under a new    *)
(* id, a fresh listener takes its place.                                   *)
(***************************************************************************)
accept_tcp(s) ==
    LET id == Least(FreeIds) IN
    /\ handles' = Put([handles EXCEPT ![s] = [st |-> "listen", data |-> FALSE]], id, handles[s])
    /\ IF id \in DOMAIN sockets
       THEN removals' = removals \cup {id} /\ UNCHANGED <<sockets, openFds>>
       ELSE /\ sockets' = Put(sockets, id, "Connected") /\ openFds' = openFds \cup {id}
            /\ UNCHANGED removals

sys_accept4(t, s) ==
    /\ NetCalls(t, "accept", s)
    /\ \/ sockets[s] # "Listening" /\ NetReturn(t) /\ KeepNet
       \/ /\ sockets[s] = "Listening" /\ (Contended \/ ~Accepted(handles[s]))
          /\ Blocks(t, "accept", s)
       \/ /\ sockets[s] = "Listening" /\ ~Contended /\ Accepted(handles[s]) /\ FreeIds # {}
          /\ accept_tcp(s) /\ NetReturn(t)
          /\ UNCHANGED <<bottom, ready, packets>>

(***************************************************************************)
(* connect: `started` is connect_deadline_ms # 0, `syns` the handshakes    *)
(* this call has begun.                                                    *)
(***************************************************************************)
Connected(s) == sockets' = [sockets EXCEPT ![s] = "Connected"] /\ UNCHANGED <<handles, openFds, removals, bottom, ready, packets>>

\* Mutant: a restarted call does not remember its handshake.
NewHandshake_always(c) == TRUE

\* A restarted failed handshake must not start a new SYN transaction.
NewHandshake(c) == ~c.started

sys_connect(t, s, nonblock) ==
    /\ NetCalls(t, "connect", s)
    /\ \/ Contended /\ Blocks(t, "connect", s)
       \/ /\ ~Contended /\ handles[s].st = "established"
          /\ NetReturn(t) /\ Connected(s)
       \/ /\ ~Contended /\ handles[s].st \notin {"established", "closed"}
          /\ \/ nonblock /\ NetReturn(t) /\ KeepNet                      \* EINPROGRESS
             \/ ~nonblock /\ Blocks(t, "connect", s)
             \/ ~nonblock /\ caller[t].started /\ NetReturn(t) /\ KeepNet  \* ETIMEDOUT
       \/ /\ ~Contended /\ handles[s].st = "closed" /\ ~NewHandshake(caller[t])
          /\ NetReturn(t) /\ KeepNet                                     \* ECONNREFUSED
       \/ /\ ~Contended /\ handles[s].st = "closed" /\ NewHandshake(caller[t])
          /\ handles' = [handles EXCEPT ![s].st = "synsent"]
          /\ sockets' = [sockets EXCEPT ![s] = "Connecting"]
          /\ IF nonblock THEN NetReturn(t)
             ELSE block_and_restart(t, "connect", s, TRUE, caller[t].syns + 1)
          /\ UNCHANGED <<openFds, removals, bottom, ready, packets>>

(***************************************************************************)
(* recv, send and poll for input.                                          *)
(***************************************************************************)
sys_recvfrom(t, s) ==
    /\ NetCalls(t, "recv", s)
    /\ \/ (Contended \/ (~CanRecv(handles[s]) /\ MayRecv(handles[s]))) /\ Blocks(t, "recv", s)
       \/ /\ ~Contended /\ (CanRecv(handles[s]) \/ ~MayRecv(handles[s]))
          /\ handles' = [handles EXCEPT ![s].data = FALSE]
          /\ NetReturn(t)
          /\ UNCHANGED <<sockets, openFds, removals, bottom, ready, packets>>

\* The send buffer is never full here; a closed peer gives EPIPE.
sys_sendto(t, s) ==
    /\ NetCalls(t, "send", s)
    /\ IF Contended THEN Blocks(t, "send", s) ELSE NetReturn(t) /\ KeepNet

PollIn(s) ==
    IF sockets[s] = "Listening" THEN Accepted(handles[s])
    ELSE CanRecv(handles[s]) \/ ~MayRecv(handles[s])

sys_poll(t, s) ==
    /\ NetCalls(t, "poll", s)
    /\ IF Contended \/ ~PollIn(s) THEN Blocks(t, "poll", s)
       ELSE /\ NetReturn(t)
            /\ sockets' = IF sockets[s] = "Connecting" /\ handles[s].st = "established"
                        THEN [sockets EXCEPT ![s] = "Connected"] ELSE sockets
            /\ UNCHANGED <<handles, openFds, removals, bottom, ready, packets>>

(***************************************************************************)
(* The bottom half.                                                        *)
(***************************************************************************)
\* run_bottom_half: due at the latest one second after the pass before.
bottom_half_begin ==
    /\ bottom = "idle" /\ bottom' = "polling"
    /\ handles' = Drop(handles, removals) /\ removals' = {}
    /\ UNCHANGED <<sockets, openFds, ready, caller, packets>>

\* What a packet does to a socket.
Received(h) ==
    CASE h.st = "listen" -> {[h EXCEPT !.st = "established"]}
      [] h.st = "synsent" -> {[h EXCEPT !.st = "established"], [h EXCEPT !.st = "closed"]}
      [] h.st = "established" -> {[h EXCEPT !.data = TRUE], [h EXCEPT !.st = "closewait"], [h EXCEPT !.st = "closed"]}
      [] OTHER -> {}

\* Mutant: readiness is sampled only by a pass that processed a packet.
readiness_of_packets(H, progressed) ==
    IF progressed
    THEN {<<id, "r">> : id \in {k \in DOMAIN H : CanRecv(H[k]) \/ ~MayRecv(H[k])}}
         \cup {<<id, "w">> : id \in DOMAIN H}
    ELSE {}

\* NetStack::readiness, always sampled; an idle listener is not readable.
readiness(H, progressed) ==
    {<<id, "r">> : id \in {k \in DOMAIN H : IF k \in DOMAIN sockets /\ sockets[k] = "Listening"
                                             THEN Accepted(H[k]) ELSE CanRecv(H[k]) \/ ~MayRecv(H[k])}}
    \cup {<<id, "w">> : id \in DOMAIN H}

poll_budgeted ==
    /\ bottom = "polling" /\ bottom' = "waking"
    /\ \/ /\ handles' = handles /\ packets' = packets
          /\ ready' = ready \cup readiness(handles, FALSE)
       \/ /\ packets < MaxPackets /\ packets' = packets + 1
          /\ \E id \in DOMAIN handles : \E h \in Received(handles[id]) :
                /\ handles' = [handles EXCEPT ![id] = h]
                /\ ready' = ready \cup readiness([handles EXCEPT ![id] = h], TRUE)
    /\ UNCHANGED <<sockets, openFds, removals, caller>>

\* service_network_wakes.  When try_lock_kernel_on fails the sample is put back
\* and the work requested again, so the step is taken once the lock is free.
service_network_wakes ==
    /\ bottom = "waking" /\ bottom' = "idle"
    /\ ready' = {}
    /\ caller' = [t \in Callers |->
                    IF caller[t].wait # "no" /\ prepare_network_wait(caller[t]) \cap ready # {}
                    THEN [caller[t] EXCEPT !.wait = "no"] ELSE caller[t]]
    /\ UNCHANGED <<handles, sockets, openFds, removals, packets>>

Restartable(t) ==
    \/ ebadf(t)
    \/ \E s \in SockIds :
        \/ sys_bind(t, s) \/ sys_accept4(t, s) \/ sys_recvfrom(t, s) \/ sys_sendto(t, s) \/ sys_poll(t, s)
        \/ \E nonblock \in BOOLEAN : (caller[t].call = "connect" => ~nonblock) /\ sys_connect(t, s, nonblock)

NetNext ==
    \/ \E t \in Callers :
        \/ t \in Waiters /\ (Restartable(t) \/ sys_socket(t))
        \/ t \in Waiters /\ \E s \in SockIds : sys_listen(t, s) \/ sys_shutdown(t, s)
        \/ \E s \in SockIds : close_descriptor(t, s)
    \/ bottom_half_begin \/ poll_budgeted \/ service_network_wakes

\* Woken threads run, the network deadline recurs, and the kernel lock is
\* not taken for ever.
NetFairness ==
    /\ \A t \in Waiters : WF_netVars(caller[t].call # "none" /\ Restartable(t))
    /\ WF_netVars(bottom_half_begin) /\ WF_netVars(poll_budgeted)
    /\ WF_netVars(service_network_wakes)

NetSpec == NetInit /\ [][NetNext]_netVars /\ NetFairness

(***************************************************************************)
(* Properties.                                                             *)
(***************************************************************************)
\* Descriptors, socket table and handle table agree whatever close, accept and
\* the deferred removals interleave: an id is in use in all three, or is queued
\* for removal and in use in none but the stack.  So no handle leaks, and a late
\* removal never takes the socket of a newer descriptor.
SocketTablesAgree ==
    /\ openFds = DOMAIN sockets
    /\ removals \cap openFds = {}
    /\ DOMAIN handles = openFds \cup removals

\* A call of connect starts at most one handshake, however often it is
\* executed again.
ConnectStartsOnce == \A t \in Callers : caller[t].syns <= 1

\* No wake-up is lost between the two locks: a thread that waits for a socket
\* comes back when there is something for it to do.
ReadySocketWakes ==
    \A t \in Callers :
        []<>~(/\ caller[t].wait = "Socket" /\ caller[t].call = "recv" /\ caller[t].sock \in openFds
              /\ caller[t].sock \in DOMAIN handles /\ handles[caller[t].sock].data)

(***************************************************************************)
(* The IPv4 configuration of the network interface (net/stack.rs): static  *)
(* addresses and DHCP, changed by ifconfig while the bottom half polls the *)
(* DHCP socket.  Both hold NET_STACK, so each is one step.                 *)
(***************************************************************************)
CONSTANTS
    Leases,    \* addresses a DHCP server gives
    Statics    \* addresses ifconfig sets

NoAddr == "none"

ASSUME InterfaceAssumption == NoAddr \notin Leases \cup Statics

VARIABLES
    net,    \* the NetStack's record of the configuration
    iface,  \* what smoltcp's interface really has
    dhcp    \* the DHCP socket: "none", or the lease it holds ("none yet" is NoLease)

ifVars == <<net, iface, dhcp>>

NoLease == "unleased"

IfInit ==
    /\ net = [mode |-> "none", state |-> "down", ip |-> NoAddr]
    /\ iface = NoAddr
    /\ dhcp = "none"

clear_ipv4(n) == [n EXCEPT !.ip = NoAddr, !.state = "down"]

\* The early return compares the record with the request only.
apply_ipv4(n, addr) ==
    /\ iface' = IF n.ip = addr /\ n.state = "up" THEN iface ELSE addr
    /\ net' = [n EXCEPT !.ip = addr, !.state = "up"]

\* Mutant: the DHCP socket stays.
set_static_keep(addr) ==
    /\ apply_ipv4([net EXCEPT !.mode = "static"], addr)
    /\ UNCHANGED dhcp

set_static(addr) ==
    /\ apply_ipv4([net EXCEPT !.mode = "static"], addr)
    /\ dhcp' = "none"

\* Mutant: the record is cleared, the interface is not.
start_dhcp_record ==
    /\ net' = [clear_ipv4(net) EXCEPT !.mode = "dhcp", !.state = "configuring"]
    /\ dhcp' = NoLease
    /\ UNCHANGED iface

\* A new socket, or the reset of the old one.
start_dhcp ==
    /\ net' = [clear_ipv4(net) EXCEPT !.mode = "dhcp", !.state = "configuring"]
    /\ iface' = NoAddr
    /\ dhcp' = NoLease

\* process_dhcp: Configured.
dhcp_configured(addr) ==
    /\ dhcp # "none" /\ dhcp # addr
    /\ dhcp' = addr
    /\ apply_ipv4([net EXCEPT !.mode = "dhcp"], addr)

\* process_dhcp: Deconfigured, at the first poll and when a lease is lost.
\* A live address is kept, so that connections survive.
dhcp_deconfigured ==
    /\ dhcp # "none" /\ dhcp' = NoLease
    /\ IF net.state = "up" THEN UNCHANGED <<net, iface>>
       ELSE /\ net' = [clear_ipv4(net) EXCEPT !.state = IF net.mode = "dhcp" THEN "configuring" ELSE "down"]
            /\ iface' = NoAddr

IfNext ==
    \/ start_dhcp \/ dhcp_deconfigured
    \/ \E addr \in Statics : set_static(addr)
    \/ \E addr \in Leases : dhcp_configured(addr)

IfSpec == IfInit /\ [][IfNext]_ifVars

(***************************************************************************)
(* Properties.                                                             *)
(***************************************************************************)
\* What ifconfig reports is what the stack uses, also after a lease is lost or
\* an address is applied again.
RecordMatchesInterface ==
    /\ net.ip = iface
    /\ net.state = "up" <=> iface # NoAddr

\* An address set by hand stays until ifconfig changes it: a DHCP answer that
\* is still under way does not replace it.
StaticStays ==
    [][net.mode = "static" /\ net'.mode = "dhcp" => net'.state = "configuring"]_ifVars
=============================================================================
