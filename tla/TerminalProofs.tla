--------------------------- MODULE TerminalProofs ---------------------------
(***************************************************************************)
(* Terminals, for every value of the constants: the line discipline of one *)
(* pty, for any buffer sizes, keys and readers, the references that ptys,  *)
(* open file descriptions, sessions and processes keep of each other, and  *)
(* the jobs of the shell that runs on a terminal.                          *)
(***************************************************************************)
EXTENDS IpcProofs, SequenceTheorems

(***************************************************************************)
(* The tables of job control.                                              *)
(***************************************************************************)
(* What the tables need of each other: the references of a pty are counted *)
(* in the descriptions, which live processes hold.                         *)
IsJob(j) == j = [pgid |-> j.pgid, sid |-> j.sid, ppid |-> j.ppid, tty |-> j.tty,
                 pty |-> j.pty, zombie |-> j.zombie]

IsOfd(o) ==
    /\ o = [pty |-> o.pty, side |-> o.side, holders |-> o.holders]
    /\ o.side \in {"master", "slave"} /\ o.holders # {}

JobsOK(J) == DOMAIN J \subseteq Jobs /\ \A p \in DOMAIN J : IsJob(J[p])

HeldOK(J, F) == \A o \in DOMAIN F : F[o].holders \subseteq {p \in DOMAIN J : ~J[p].zombie}

Refs(F, id, side) == {o \in DOMAIN F : F[o].pty = id /\ F[o].side = side}

RefsOK(P, F) ==
    /\ DOMAIN P \subseteq PtySlots
    /\ \A id \in DOMAIN P : P[id] = [tty |-> P[id].tty, master |-> P[id].master, slave |-> P[id].slave]
    /\ DOMAIN F \subseteq TtyOfds
    /\ \A o \in DOMAIN F : IsOfd(F[o]) /\ F[o].pty \in DOMAIN P
    /\ \A id \in DOMAIN P :
        /\ P[id].master = Cardinality(Refs(F, id, "master"))
        /\ P[id].slave = Cardinality(Refs(F, id, "slave"))
        /\ P[id].master + P[id].slave > 0

OwnOK(P, T) ==
    /\ DOMAIN T \subseteq Ttys
    /\ \A id \in DOMAIN P : P[id].tty \in DOMAIN T
    /\ \A i, k \in DOMAIN P : P[i].tty = P[k].tty => i = k

JobInv == JobsOK(job) /\ HeldOK(job, ofds) /\ RefsOK(ptys, ofds) /\ OwnOK(ptys, ttys)

LEMMA JobInitInv == JobInit => JobInv
    BY JobAssumption DEF JobInit, JobInv, JobsOK, HeldOK, RefsOK, OwnOK, IsJob, NoEntries, Jobs

LEMMA JobInvSound ==
    ASSUME JobInv
    PROVE  JobTypeOK /\ PtyRefsExact /\ PtysHaveOwnTty
<1>1. JobTypeOK
    BY DEF JobInv, JobsOK, HeldOK, RefsOK, OwnOK, IsOfd, JobTypeOK, LiveJobs
<1>2. PtyRefsExact
    BY DEF JobInv, RefsOK, PtyRefsExact, Closing, Refs
<1>3. PtysHaveOwnTty
    BY DEF JobInv, OwnOK, PtysHaveOwnTty
<1>4. QED
    BY <1>1, <1>2, <1>3

-----------------------------------------------------------------------------
(* The ways tables change.                                                 *)
LEMMA RefsFinite ==
    ASSUME NEW F, DOMAIN F \subseteq TtyOfds, NEW id, NEW side
    PROVE  IsFiniteSet(Refs(F, id, side)) /\ Cardinality(Refs(F, id, side)) \in Nat
<1>1. IsFiniteSet(TtyOfds)
    BY JobAssumption, FS_Interval DEF TtyOfds
<1>2. Refs(F, id, side) \subseteq TtyOfds
    BY DEF Refs
<1>3. QED
    BY <1>1, <1>2, FS_Subset, FS_CardinalityType

(* Processes change, none of those alive dies.                             *)
LEMMA HeldKept ==
    ASSUME NEW J, NEW K, NEW F, HeldOK(J, F), DOMAIN J \subseteq DOMAIN K,
           \A p \in DOMAIN J : ~J[p].zombie => ~K[p].zombie
    PROVE  HeldOK(K, F)
    BY DEF HeldOK

(* A field of a process other than zombie is set.                          *)
LEMMA JobSet ==
    ASSUME JobInv, NEW p \in DOMAIN job, NEW v
    PROVE  /\ JobsOK([job EXCEPT ![p].tty = v]) /\ HeldOK([job EXCEPT ![p].tty = v], ofds)
           /\ JobsOK([job EXCEPT ![p].pgid = v]) /\ HeldOK([job EXCEPT ![p].pgid = v], ofds)
<1>1. PICK K : K = [job EXCEPT ![p].tty = v]
    OBVIOUS
<1>2. PICK L : L = [job EXCEPT ![p].pgid = v]
    OBVIOUS
<1>3. DOMAIN K = DOMAIN job /\ \A q \in DOMAIN job : IsJob(K[q]) /\ K[q].zombie = job[q].zombie
    BY <1>1 DEF JobInv, JobsOK, IsJob
<1>4. DOMAIN L = DOMAIN job /\ \A q \in DOMAIN job : IsJob(L[q]) /\ L[q].zombie = job[q].zombie
    BY <1>2 DEF JobInv, JobsOK, IsJob
<1>5. JobsOK(K) /\ JobsOK(L)
    BY <1>3, <1>4 DEF JobInv, JobsOK
<1>6. HeldOK(K, ofds) /\ HeldOK(L, ofds)
    BY <1>3, <1>4, HeldKept DEF JobInv
<1>7. QED
    BY <1>1, <1>2, <1>5, <1>6

(* Terminals are added, or handed over.                                    *)
LEMMA OwnKept ==
    ASSUME NEW P, NEW T, NEW U, OwnOK(P, T), DOMAIN T \subseteq DOMAIN U, DOMAIN U \subseteq Ttys
    PROVE  OwnOK(P, U)
    BY DEF OwnOK

LEMMA ControllingFacts ==
    ASSUME JobInv, NEW p
    PROVE  /\ DOMAIN ttys \subseteq DOMAIN WithControllingTty(p)
           /\ DOMAIN WithControllingTty(p) \subseteq Ttys
<1>1. PICK t : t = ControllingTty(p)
    OBVIOUS
<1>2. ASSUME job[p].tty = 0, t # 0, t \notin DOMAIN ttys
      PROVE  t \in Ttys
    <2>1. PICK mine : mine = {x \in DOMAIN ttys : ttys[x].session = job[p].sid}
        OBVIOUS
    <2>2. mine \in SUBSET Nat /\ FreeTtys(ttys) \in SUBSET Nat
        BY <2>1 DEF JobInv, OwnOK, Ttys, FreeTtys
    <2>3. CASE mine # {}
        <3>1. t = Least(mine)
            BY <1>1, <1>2, <2>1, <2>3 DEF ControllingTty
        <3>2. t \in mine
            BY <3>1, <2>2, <2>3, LeastIn
        <3>3. QED
            BY <3>2, <2>1, <1>2
    <2>4. CASE mine = {}
        <3>1. t = Least(FreeTtys(ttys)) /\ FreeTtys(ttys) # {}
            BY <1>1, <1>2, <2>1, <2>4 DEF ControllingTty
        <3>2. QED
            BY <3>1, <2>2, LeastIn DEF FreeTtys
    <2>5. QED
        BY <2>3, <2>4
<1>3. QED
    BY <1>1, <1>2 DEF WithControllingTty, Put, JobInv, OwnOK

LEMMA HandOverFacts ==
    ASSUME NEW T, NEW t, NEW p, NEW g
    PROVE  DOMAIN HandOver(T, t, p, g) = DOMAIN T
    BY DEF HandOver

(* New descriptions are free ones, and differ.                             *)
LEMMA OneNew ==
    ASSUME JobInv, HaveOfds(1)
    PROVE  NewOfds(1)[1] \in TtyOfds \ DOMAIN ofds
<1>1. PICK S : S = TtyOfds \ DOMAIN ofds
    OBVIOUS
<1>2. S # {}
    BY <1>1, FS_EmptySet DEF HaveOfds
<1>3. PICK a \in S : TRUE
    BY <1>2
<1>4. [i \in 1..1 |-> a] \in [1..1 -> S] /\ \A i, j \in 1..1 : i < j => [k \in 1..1 |-> a][i] < [k \in 1..1 |-> a][j]
    BY <1>3
<1>5. NewOfds(1) \in [1..1 -> S]
    BY <1>1, <1>4 DEF NewOfds
<1>6. QED
    BY <1>1, <1>5

LEMMA TwoNew ==
    ASSUME JobInv, HaveOfds(2)
    PROVE  /\ NewOfds(2)[1] \in TtyOfds \ DOMAIN ofds /\ NewOfds(2)[2] \in TtyOfds \ DOMAIN ofds
           /\ NewOfds(2)[1] # NewOfds(2)[2]
<1>1. PICK S : S = TtyOfds \ DOMAIN ofds
    OBVIOUS
<1>2. S \subseteq Nat
    BY <1>1 DEF TtyOfds
<1>3. \E a, b \in S : a < b
    <2>1. Cardinality(S) >= 2
        BY <1>1 DEF HaveOfds
    <2>2. S # {}
        BY <2>1, FS_EmptySet
    <2>3. PICK a \in S : TRUE
        BY <2>2
    <2>4. S # {a}
        BY <2>1, FS_Singleton
    <2>5. PICK b \in S : b # a
        BY <2>3, <2>4
    <2>6. QED
        BY <1>2, <2>3, <2>5
<1>4. PICK a \in S, b \in S : a < b
    BY <1>3
<1>5. PICK f : f = [i \in 1..2 |-> IF i = 1 THEN a ELSE b]
    OBVIOUS
<1>6. f \in [1..2 -> S] /\ \A i, j \in 1..2 : i < j => f[i] < f[j]
    BY <1>4, <1>5
<1>7. NewOfds(2) \in [1..2 -> S] /\ \A i, j \in 1..2 : i < j => NewOfds(2)[i] < NewOfds(2)[j]
    BY <1>1, <1>6 DEF NewOfds
<1>8. NewOfds(2)[1] \in S /\ NewOfds(2)[2] \in S /\ NewOfds(2)[1] < NewOfds(2)[2]
    BY <1>7
<1>9. QED
    BY <1>1, <1>2, <1>8

-----------------------------------------------------------------------------
(* Release of a process's references S: the descriptions it held alone go, *)
(* with the ptys that no description is left of, and their terminals.      *)
LEMMA ReleaseInv ==
    ASSUME JobInv, NEW p, NEW S \in SUBSET DOMAIN ofds, \A o \in S : p \in ofds[o].holders,
           ReleasePtyFds(p, S)
    PROVE  /\ RefsOK(ptys', ofds') /\ OwnOK(ptys', ttys')
           /\ \A o \in DOMAIN ofds' : /\ o \in DOMAIN ofds /\ ofds'[o].holders \subseteq ofds[o].holders
                                      /\ o \in S => p \notin ofds'[o].holders
<1>1. PICK L : L = last_reference(p, S)
    OBVIOUS
<1>2. PICK G : G = ofds'
    OBVIOUS
<1>3. L \subseteq S /\ \A o \in S : o \in L <=> ofds[o].holders = {p}
    BY <1>1 DEF last_reference
<1>4. {o \in S : ofds[o].holders \subseteq {p}} = L
    BY <1>3 DEF JobInv, RefsOK, IsOfd
<1>5. G = Drop([o \in DOMAIN ofds |->
                   IF o \in S THEN [ofds[o] EXCEPT !.holders = @ \ {p}] ELSE ofds[o]], L)
    BY <1>1, <1>2, <1>4 DEF ReleasePtyFds
<1>6. /\ DOMAIN G = DOMAIN ofds \ L
      /\ \A o \in DOMAIN G : G[o] = IF o \in S THEN [ofds[o] EXCEPT !.holders = @ \ {p}] ELSE ofds[o]
    BY <1>5 DEF Drop
<1>7. \A o \in DOMAIN G : /\ IsOfd(G[o]) /\ G[o].pty = ofds[o].pty /\ G[o].side = ofds[o].side
                          /\ G[o].holders \subseteq ofds[o].holders
                          /\ o \in S => p \notin G[o].holders
    <2>1. SUFFICES ASSUME NEW o \in DOMAIN G
                   PROVE  /\ IsOfd(G[o]) /\ G[o].pty = ofds[o].pty /\ G[o].side = ofds[o].side
                          /\ G[o].holders \subseteq ofds[o].holders
                          /\ o \in S => p \notin G[o].holders
        OBVIOUS
    <2>2. IsOfd(ofds[o])
        BY <1>6 DEF JobInv, RefsOK
    <2>3. CASE o \in S
        <3>1. ofds[o].holders \ {p} # {}
            BY <1>3, <1>6, <2>2, <2>3 DEF IsOfd
        <3>2. QED
            BY <1>6, <2>2, <2>3, <3>1 DEF IsOfd
    <2>4. CASE o \notin S
        BY <1>6, <2>2, <2>4
    <2>5. QED
        BY <2>3, <2>4
<1>8. ASSUME NEW id, NEW side
      PROVE  /\ Cardinality(Refs(G, id, side)) = Cardinality(Refs(ofds, id, side)) - Closing(L, id, side)
             /\ Cardinality(Refs(G, id, side)) \in Nat
             /\ Refs(G, id, side) # {} => Cardinality(Refs(G, id, side)) > 0
    <2>1. PICK C : C = {o \in L : ofds[o].pty = id /\ ofds[o].side = side}
        OBVIOUS
    <2>2. /\ Refs(G, id, side) = Refs(ofds, id, side) \ C
          /\ Refs(ofds, id, side) \cap C = C
        BY <1>3, <1>6, <1>7, <2>1 DEF Refs
    <2>3. IsFiniteSet(Refs(ofds, id, side)) /\ IsFiniteSet(Refs(G, id, side))
        BY <1>6, RefsFinite DEF JobInv, RefsOK
    <2>4. Cardinality(Refs(G, id, side)) = Cardinality(Refs(ofds, id, side)) - Cardinality(C)
        BY <2>2, <2>3, FS_Difference
    <2>5. QED
        BY <2>1, <2>3, <2>4, FS_CardinalityType, FS_EmptySet DEF Closing
<1>9. PICK left : left = [id \in DOMAIN ptys |->
                            [ptys[id] EXCEPT !.master = @ - Closing(L, id, "master"),
                                             !.slave = @ - Closing(L, id, "slave")]]
    OBVIOUS
<1>10. ASSUME NEW id \in DOMAIN ptys
       PROVE  /\ left[id] = [tty |-> left[id].tty, master |-> left[id].master, slave |-> left[id].slave]
              /\ left[id].tty = ptys[id].tty
              /\ left[id].master = Cardinality(Refs(G, id, "master"))
              /\ left[id].slave = Cardinality(Refs(G, id, "slave"))
    <2>1. PICK m, n : m = Closing(L, id, "master") /\ n = Closing(L, id, "slave")
        OBVIOUS
    <2>2. left[id] = [ptys[id] EXCEPT !.master = @ - m, !.slave = @ - n]
        BY <1>9, <2>1
    <2>3. PICK x : x = ptys[id]
        OBVIOUS
    <2>4. x = [tty |-> x.tty, master |-> x.master, slave |-> x.slave]
        BY <2>3 DEF JobInv, RefsOK
    <2>5. /\ left[id] = [tty |-> left[id].tty, master |-> left[id].master, slave |-> left[id].slave]
          /\ left[id].tty = x.tty /\ left[id].master = x.master - m /\ left[id].slave = x.slave - n
        BY <2>2, <2>3, <2>4
    <2>6. x.master = Cardinality(Refs(ofds, id, "master")) /\ x.slave = Cardinality(Refs(ofds, id, "slave"))
        BY <2>3 DEF JobInv, RefsOK
    <2>7. QED
        BY <1>8, <2>1, <2>3, <2>5, <2>6
<1>11. PICK gone : gone = {id \in DOMAIN ptys : left[id].master = 0 /\ left[id].slave = 0}
    OBVIOUS
<1>12. ptys' = Drop(left, gone) /\ ttys' = Drop(ttys, {ptys[id].tty : id \in gone})
    BY <1>1, <1>9, <1>11 DEF ReleasePtyFds, CloseRefs
<1>13. DOMAIN ptys' = DOMAIN ptys \ gone /\ \A id \in DOMAIN ptys' : ptys'[id] = left[id]
    BY <1>9, <1>12 DEF Drop
<1>14. \A o \in DOMAIN G : G[o].pty \in DOMAIN ptys'
    <2>1. SUFFICES ASSUME NEW o \in DOMAIN G
                   PROVE  G[o].pty \in DOMAIN ptys'
        OBVIOUS
    <2>2. G[o].pty \in DOMAIN ptys
        BY <1>6, <1>7 DEF JobInv, RefsOK
    <2>3. o \in Refs(G, G[o].pty, G[o].side) /\ G[o].side \in {"master", "slave"}
        BY <1>7 DEF Refs, IsOfd
    <2>4. Cardinality(Refs(G, G[o].pty, G[o].side)) > 0
        BY <2>3, <1>8
    <2>5. G[o].pty \notin gone
        <3>1. PICK id : id = G[o].pty
            OBVIOUS
        <3>2. left[id].master = Cardinality(Refs(G, id, "master")) /\ left[id].slave = Cardinality(Refs(G, id, "slave"))
            BY <1>10, <2>2, <3>1
        <3>3. left[id].master > 0 \/ left[id].slave > 0
            BY <2>3, <2>4, <3>1, <3>2
        <3>4. QED
            BY <1>11, <3>1, <3>3
    <2>6. QED
        BY <1>13, <2>2, <2>5
<1>15. RefsOK(ptys', G)
    <2>1. \A id \in DOMAIN ptys' : /\ Cardinality(Refs(G, id, "master")) \in Nat
                                   /\ Cardinality(Refs(G, id, "slave")) \in Nat
        BY <1>8
    <2>2. \A id \in DOMAIN ptys' : ptys'[id].master + ptys'[id].slave > 0
        <3>1. SUFFICES ASSUME NEW id \in DOMAIN ptys'
                       PROVE  ptys'[id].master + ptys'[id].slave > 0
            OBVIOUS
        <3>2. left[id].master \in Nat /\ left[id].slave \in Nat /\ ~(left[id].master = 0 /\ left[id].slave = 0)
            BY <1>10, <1>11, <1>13, <2>1
        <3>3. QED
            BY <1>13, <3>2
    <2>3. DOMAIN ptys' \subseteq PtySlots /\ DOMAIN G \subseteq TtyOfds
        BY <1>6, <1>13 DEF JobInv, RefsOK
    <2>4. QED
        BY <1>7, <1>10, <1>13, <1>14, <2>2, <2>3 DEF RefsOK
<1>16. OwnOK(ptys', ttys')
    <2>1. DOMAIN ttys' = DOMAIN ttys \ {ptys[id].tty : id \in gone}
        BY <1>12 DEF Drop
    <2>2. \A id \in DOMAIN ptys' : id \in DOMAIN ptys /\ id \notin gone /\ ptys'[id].tty = ptys[id].tty
        BY <1>10, <1>13
    <2>3. gone \subseteq DOMAIN ptys
        BY <1>11
    <2>4. QED
        BY <2>1, <2>2, <2>3 DEF JobInv, OwnOK
<1>17. QED
    BY <1>2, <1>6, <1>7, <1>15, <1>16

(* A description more on the slave side.                                   *)
LEMMA OpenTtyInv ==
    ASSUME JobInv, NEW p \in LiveJobs, open_dev_tty(p)
    PROVE  JobInv'
<1>1. PICK o : o = NewOfds(1)[1]
    OBVIOUS
<1>2. o \in TtyOfds \ DOMAIN ofds
    BY <1>1, OneNew DEF open_dev_tty
<1>3. PICK d : d = [pty |-> job[p].pty, side |-> "slave", holders |-> {p}]
    OBVIOUS
<1>4. IsOfd(d) /\ d.pty = job[p].pty /\ d.side = "slave" /\ d.holders = {p}
    BY <1>3 DEF IsOfd
<1>5. ofds' = Put(ofds, o, d)
    BY <1>1, <1>3 DEF open_dev_tty
<1>6. DOMAIN ofds' = DOMAIN ofds \cup {o} /\ ofds'[o] = d /\ \A x \in DOMAIN ofds : ofds'[x] = ofds[x]
    BY <1>2, <1>5 DEF Put
<1>7. ptys' = [ptys EXCEPT ![job[p].pty].slave = @ + 1] /\ job[p].pty \in DOMAIN ptys
    BY DEF open_dev_tty
<1>8. /\ DOMAIN ptys' = DOMAIN ptys
      /\ \A id \in DOMAIN ptys :
            /\ ptys'[id] = [tty |-> ptys[id].tty, master |-> ptys[id].master, slave |-> ptys'[id].slave]
            /\ ptys'[id].slave = IF id = job[p].pty THEN ptys[id].slave + 1 ELSE ptys[id].slave
    BY <1>7 DEF JobInv, RefsOK
<1>9. \A id : /\ Refs(ofds', id, "master") = Refs(ofds, id, "master")
              /\ Refs(ofds', id, "slave") = IF id = job[p].pty THEN Refs(ofds, id, "slave") \cup {o}
                                            ELSE Refs(ofds, id, "slave")
    BY <1>2, <1>4, <1>6 DEF Refs
<1>10. \A id \in DOMAIN ptys : /\ Cardinality(Refs(ofds', id, "slave")) = ptys'[id].slave
                               /\ Cardinality(Refs(ofds, id, "slave")) \in Nat
                               /\ Cardinality(Refs(ofds, id, "master")) \in Nat
    <2>1. SUFFICES ASSUME NEW id \in DOMAIN ptys
                   PROVE  /\ Cardinality(Refs(ofds', id, "slave")) = ptys'[id].slave
                          /\ Cardinality(Refs(ofds, id, "slave")) \in Nat
                          /\ Cardinality(Refs(ofds, id, "master")) \in Nat
        OBVIOUS
    <2>2. IsFiniteSet(Refs(ofds, id, "slave")) /\ o \notin Refs(ofds, id, "slave")
        <3>1. DOMAIN ofds \subseteq TtyOfds
            BY DEF JobInv, RefsOK
        <3>2. IsFiniteSet(Refs(ofds, id, "slave"))
            BY <3>1, RefsFinite
        <3>3. o \notin Refs(ofds, id, "slave")
            BY <1>2 DEF Refs
        <3>4. QED
            BY <3>2, <3>3
    <2>3. Cardinality(Refs(ofds, id, "slave") \cup {o}) = Cardinality(Refs(ofds, id, "slave")) + 1
        BY <2>2, FS_AddElement
    <2>4. QED
        BY <1>8, <1>9, <2>3, RefsFinite DEF JobInv, RefsOK
<1>11. RefsOK(ptys', ofds')
    <2>1. \A id \in DOMAIN ptys' :
            /\ ptys'[id].master = Cardinality(Refs(ofds', id, "master"))
            /\ ptys'[id].master + ptys'[id].slave > 0
        BY <1>8, <1>9, <1>10 DEF JobInv, RefsOK
    <2>2. \A x \in DOMAIN ofds' : IsOfd(ofds'[x]) /\ ofds'[x].pty \in DOMAIN ptys'
        BY <1>4, <1>6, <1>7, <1>8 DEF JobInv, RefsOK
    <2>3. QED
        BY <1>2, <1>6, <1>8, <1>10, <2>1, <2>2 DEF JobInv, RefsOK
<1>12. OwnOK(ptys', ttys')
    BY <1>8 DEF open_dev_tty, JobInv, OwnOK
<1>13. JobsOK(job') /\ HeldOK(job', ofds')
    <2>1. job' = job /\ p \in DOMAIN job /\ ~job[p].zombie
        BY DEF open_dev_tty, LiveJobs
    <2>2. QED
        BY <1>4, <1>6, <2>1 DEF JobInv, HeldOK
<1>14. QED
    BY <1>11, <1>12, <1>13 DEF JobInv

(* A new pty with its own terminal and one description on each side.       *)
LEMMA OpenPtyInv ==
    ASSUME JobInv, NEW p \in LiveJobs, sys_openpty(p)
    PROVE  JobInv'
<1>1. PICK T : T = WithControllingTty(p)
    OBVIOUS
<1>2. DOMAIN ttys \subseteq DOMAIN T /\ DOMAIN T \subseteq Ttys
    BY <1>1, ControllingFacts
<1>3. p \in DOMAIN job /\ ~job[p].zombie
    BY DEF LiveJobs
<1>4. job' = [job EXCEPT ![p].tty = ControllingTty(p)]
    BY DEF sys_openpty
<1>5. JobsOK(job') /\ HeldOK(job', ofds) /\ DOMAIN job' = DOMAIN job /\ ~job'[p].zombie
    <2>1. JobsOK(job') /\ HeldOK(job', ofds)
        BY <1>3, <1>4, JobSet
    <2>2. DOMAIN job' = DOMAIN job /\ ~job'[p].zombie
        BY <1>3, <1>4 DEF JobInv, JobsOK, IsJob
    <2>3. QED
        BY <2>1, <2>2
<1>6. CASE ttys' = T /\ UNCHANGED <<ptys, ofds>>
    BY <1>2, <1>5, <1>6, OwnKept DEF JobInv
<1>7. CASE ~(ttys' = T /\ UNCHANGED <<ptys, ofds>>)
    <2>1. PICK t : t = pty_tty(p, T)
        OBVIOUS
    <2>2. PICK free : free = PtySlots \ DOMAIN ptys
        OBVIOUS
    <2>3. PICK id : id = Least(free)
        OBVIOUS
    <2>4. PICK a, b : a = NewOfds(2)[1] /\ b = NewOfds(2)[2]
        OBVIOUS
    <2>5. PICK d : d = [pty |-> id, side |-> "master", holders |-> {p}]
        OBVIOUS
    <2>6. PICK e : e = [pty |-> id, side |-> "slave", holders |-> {p}]
        OBVIOUS
    <2>7. PICK x : x = [tty |-> t, master |-> 1, slave |-> 1]
        OBVIOUS
    <2>8. PICK y : y = [session |-> job[p].sid, fg |-> job[p].pgid]
        OBVIOUS
    <2>9. /\ t # 0 /\ free # {} /\ HaveOfds(2)
          /\ ttys' = Put(T, t, y) /\ ptys' = Put(ptys, id, x)
          /\ ofds' = Put(Put(ofds, a, d), b, e)
        BY <1>1, <1>7, <2>1, <2>2, <2>3, <2>4, <2>5, <2>6, <2>7, <2>8 DEF sys_openpty
    <2>10. a \in TtyOfds \ DOMAIN ofds /\ b \in TtyOfds \ DOMAIN ofds /\ a # b
        BY <2>4, <2>9, TwoNew
    <2>11. id \in PtySlots /\ id \notin DOMAIN ptys
        <3>1. free \in SUBSET Nat
            BY <2>2 DEF PtySlots
        <3>2. QED
            BY <3>1, <2>2, <2>3, <2>9, LeastIn
    <2>12. t \in Ttys /\ t \notin DOMAIN T
        <3>1. FreeTtys(T) # {} /\ t = Least(FreeTtys(T))
            BY <2>1, <2>9 DEF pty_tty
        <3>2. FreeTtys(T) \in SUBSET Nat
            BY DEF FreeTtys, Ttys
        <3>3. QED
            BY <3>1, <3>2, LeastIn DEF FreeTtys
    <2>13. /\ DOMAIN ofds' = DOMAIN ofds \cup {a, b} /\ ofds'[a] = d /\ ofds'[b] = e
           /\ \A o \in DOMAIN ofds : ofds'[o] = ofds[o]
        BY <2>9, <2>10 DEF Put
    <2>14. DOMAIN ptys' = DOMAIN ptys \cup {id} /\ ptys'[id] = x /\ \A i \in DOMAIN ptys : ptys'[i] = ptys[i]
        BY <2>9, <2>11 DEF Put
    <2>15. DOMAIN ttys' = DOMAIN T \cup {t}
        BY <2>9 DEF Put
    <2>16. IsOfd(d) /\ IsOfd(e) /\ d.pty = id /\ e.pty = id /\ d.side = "master" /\ e.side = "slave"
           /\ d.holders = {p} /\ e.holders = {p}
        BY <2>5, <2>6 DEF IsOfd
    <2>17. \A o \in DOMAIN ofds : ofds[o].pty \in DOMAIN ptys /\ ofds[o].pty # id
        BY <2>11 DEF JobInv, RefsOK
    <2>18. Refs(ofds', id, "master") = {a} /\ Refs(ofds', id, "slave") = {b}
        BY <2>10, <2>13, <2>16, <2>17 DEF Refs
    <2>19. \A i \in DOMAIN ptys : /\ Refs(ofds', i, "master") = Refs(ofds, i, "master")
                                  /\ Refs(ofds', i, "slave") = Refs(ofds, i, "slave")
        BY <2>10, <2>11, <2>13, <2>16 DEF Refs
    <2>20. Cardinality({a}) = 1 /\ Cardinality({b}) = 1
        BY FS_Singleton
    <2>21. RefsOK(ptys', ofds')
        <3>1. \A o \in DOMAIN ofds' : IsOfd(ofds'[o]) /\ ofds'[o].pty \in DOMAIN ptys'
            BY <2>13, <2>14, <2>16 DEF JobInv, RefsOK
        <3>2. \A i \in DOMAIN ptys' :
                /\ ptys'[i] = [tty |-> ptys'[i].tty, master |-> ptys'[i].master, slave |-> ptys'[i].slave]
                /\ ptys'[i].master = Cardinality(Refs(ofds', i, "master"))
                /\ ptys'[i].slave = Cardinality(Refs(ofds', i, "slave"))
                /\ ptys'[i].master + ptys'[i].slave > 0
            <4>1. SUFFICES ASSUME NEW i \in DOMAIN ptys'
                           PROVE  /\ ptys'[i] = [tty |-> ptys'[i].tty, master |-> ptys'[i].master, slave |-> ptys'[i].slave]
                                  /\ ptys'[i].master = Cardinality(Refs(ofds', i, "master"))
                                  /\ ptys'[i].slave = Cardinality(Refs(ofds', i, "slave"))
                                  /\ ptys'[i].master + ptys'[i].slave > 0
                OBVIOUS
            <4>2. CASE i = id
                BY <2>7, <2>14, <2>18, <2>20, <4>2
            <4>3. CASE i # id
                BY <2>14, <2>19, <4>3 DEF JobInv, RefsOK
            <4>4. QED
                BY <4>2, <4>3
        <3>3. DOMAIN ptys' \subseteq PtySlots /\ DOMAIN ofds' \subseteq TtyOfds
            BY <2>10, <2>11, <2>13, <2>14 DEF JobInv, RefsOK
        <3>4. QED
            BY <3>1, <3>2, <3>3 DEF RefsOK
    <2>22. OwnOK(ptys', ttys')
        <3>1. x.tty = t
            BY <2>7
        <3>2. \A i \in DOMAIN ptys : ptys[i].tty \in DOMAIN T /\ ptys[i].tty # t
            BY <1>2, <2>12 DEF JobInv, OwnOK
        <3>3. QED
            BY <1>2, <2>12, <2>14, <2>15, <3>1, <3>2 DEF JobInv, OwnOK
    <2>23. HeldOK(job', ofds')
        BY <1>3, <1>5, <2>13, <2>16 DEF HeldOK
    <2>24. QED
        BY <1>5, <2>21, <2>22, <2>23 DEF JobInv
<1>8. QED
    BY <1>6, <1>7

(* A child, with the description it is started on.                         *)
LEMMA JobSpawnInv ==
    ASSUME JobInv, NEW p \in LiveJobs, NEW own \in BOOLEAN, NEW foreground \in BOOLEAN,
           NEW o \in {0} \cup DOMAIN ofds, job_spawn(p, own, o, foreground)
    PROVE  JobInv'
<1>1. PICK c : c = nextPid
    OBVIOUS
<1>2. c \in Jobs
    BY <1>1 DEF job_spawn
<1>3. p \in DOMAIN job
    BY DEF LiveJobs
<1>4. PICK v : job' = Put([job EXCEPT ![p].tty = v], c, job'[c]) /\ IsJob(job'[c]) /\ job'[c].zombie = FALSE
    BY <1>1 DEF job_spawn, IsJob, Put
<1>5. PICK K : K = [job EXCEPT ![p].tty = v]
    OBVIOUS
<1>6. JobsOK(K) /\ HeldOK(K, ofds)
    BY <1>3, <1>5, JobSet
<1>7. DOMAIN job' = DOMAIN K \cup {c} /\ \A q \in DOMAIN K \ {c} : job'[q] = K[q]
    BY <1>4, <1>5 DEF Put
<1>8. JobsOK(job')
    BY <1>2, <1>4, <1>6, <1>7 DEF JobsOK
<1>9. HeldOK(job', ofds)
    BY <1>4, <1>6, <1>7, HeldKept
<1>10. ofds' = IF o = 0 THEN ofds ELSE [ofds EXCEPT ![o].holders = @ \cup {c}]
    BY <1>1 DEF job_spawn
<1>11. /\ DOMAIN ofds' = DOMAIN ofds
       /\ \A x \in DOMAIN ofds : /\ IsOfd(ofds'[x]) /\ ofds'[x].pty = ofds[x].pty /\ ofds'[x].side = ofds[x].side
                                 /\ ofds'[x].holders \subseteq ofds[x].holders \cup {c}
    <2>1. \A x \in DOMAIN ofds : IsOfd(ofds[x])
        BY DEF JobInv, RefsOK
    <2>2. CASE o = 0
        BY <1>10, <2>1, <2>2
    <2>3. CASE o # 0
        <3>1. PICK d : d = ofds[o]
            OBVIOUS
        <3>2. o \in DOMAIN ofds /\ IsOfd(d)
            BY <2>1, <2>3, <3>1
        <3>3. PICK e : e = [d EXCEPT !.holders = @ \cup {c}]
            OBVIOUS
        <3>4. IsOfd(e) /\ e.pty = d.pty /\ e.side = d.side /\ e.holders = d.holders \cup {c}
            BY <3>2, <3>3 DEF IsOfd
        <3>5. ofds' = [ofds EXCEPT ![o] = e]
            BY <1>10, <2>3, <3>1, <3>3
        <3>6. QED
            BY <2>1, <3>1, <3>2, <3>4, <3>5
    <2>4. QED
        BY <2>2, <2>3
<1>12. HeldOK(job', ofds')
    BY <1>4, <1>7, <1>9, <1>11 DEF HeldOK
<1>13. \A id, side : Refs(ofds', id, side) = Refs(ofds, id, side)
    BY <1>11 DEF Refs
<1>14. RefsOK(ptys', ofds')
    <2>1. ptys' = ptys
        BY DEF job_spawn
    <2>2. QED
        BY <1>11, <1>13, <2>1 DEF JobInv, RefsOK
<1>15. DOMAIN ttys \subseteq DOMAIN ttys' /\ DOMAIN ttys' \subseteq Ttys
    <2>1. DOMAIN ttys' = DOMAIN ttys \/ DOMAIN ttys' = DOMAIN WithControllingTty(p)
        BY DEF job_spawn
    <2>2. QED
        BY <2>1, ControllingFacts DEF JobInv, OwnOK
<1>16. OwnOK(ptys', ttys')
    BY <1>15, OwnKept DEF job_spawn, JobInv
<1>17. QED
    BY <1>8, <1>12, <1>14, <1>16 DEF JobInv

LEMMA JobNextInv ==
    ASSUME JobInv, [JobNext]_jobVars
    PROVE  JobInv'
<1>1. ASSUME NEW p \in LiveJobs, NEW target \in DOMAIN job, NEW pgid \in DOMAIN job, setpgid(p, target, pgid)
      PROVE  JobInv'
    <2>1. job' = [job EXCEPT ![target].pgid = pgid]
        BY <1>1 DEF setpgid
    <2>2. JobsOK(job') /\ HeldOK(job', ofds)
        BY <2>1, JobSet
    <2>3. QED
        BY <1>1, <2>2 DEF setpgid, JobInv
<1>2. ASSUME NEW p \in LiveJobs, setsid(p)
      PROVE  JobInv'
    <2>1. p \in DOMAIN job
        BY DEF LiveJobs
    <2>2. job' = [job EXCEPT ![p].sid = p, ![p].pgid = p, ![p].tty = 0, ![p].pty = 0]
        BY <1>2 DEF setsid
    <2>3. DOMAIN job' = DOMAIN job /\ \A q \in DOMAIN job : IsJob(job'[q]) /\ job'[q].zombie = job[q].zombie
        <3>1. PICK j : j = job[p]
            OBVIOUS
        <3>2. IsJob(j)
            BY <2>1, <3>1 DEF JobInv, JobsOK
        <3>3. job' = [job EXCEPT ![p] = [j EXCEPT !.sid = p, !.pgid = p, !.tty = 0, !.pty = 0]]
            BY <2>1, <2>2, <3>1, <3>2 DEF IsJob
        <3>4. PICK k : k = [j EXCEPT !.sid = p, !.pgid = p, !.tty = 0, !.pty = 0]
            OBVIOUS
        <3>5. IsJob(k) /\ k.zombie = j.zombie
            BY <3>2, <3>4 DEF IsJob
        <3>6. QED
            BY <2>1, <3>1, <3>3, <3>4, <3>5 DEF JobInv, JobsOK
    <2>4. JobsOK(job') /\ HeldOK(job', ofds)
        BY <2>3, HeldKept DEF JobInv, JobsOK
    <2>5. QED
        BY <1>2, <2>4 DEF setsid, JobInv
<1>3. ASSUME NEW p \in LiveJobs, NEW pgid, sys_tty_setfg(p, pgid)
      PROVE  JobInv'
    <2>1. p \in DOMAIN job
        BY DEF LiveJobs
    <2>2. job' = [job EXCEPT ![p].tty = ControllingTty(p)]
        BY <1>3 DEF sys_tty_setfg
    <2>3. JobsOK(job') /\ HeldOK(job', ofds)
        BY <2>1, <2>2, JobSet
    <2>4. DOMAIN ttys \subseteq DOMAIN ttys' /\ DOMAIN ttys' \subseteq Ttys
        BY <1>3, ControllingFacts, HandOverFacts DEF sys_tty_setfg
    <2>5. QED
        BY <1>3, <2>3, <2>4, OwnKept DEF sys_tty_setfg, JobInv
<1>4. ASSUME NEW p \in LiveJobs, NEW o \in DOMAIN ofds, NEW pgid, tiocspgrp(p, o, pgid)
      PROVE  JobInv'
    <2>1. DOMAIN ttys' = DOMAIN ttys
        BY <1>4, HandOverFacts DEF tiocspgrp
    <2>2. QED
        BY <1>4, <2>1 DEF tiocspgrp, JobInv, OwnOK
<1>5. ASSUME NEW p \in LiveJobs, NEW o \in DOMAIN ofds, close_pty_fd(p, o)
      PROVE  JobInv'
    <2>1. {o} \in SUBSET DOMAIN ofds /\ (\A x \in {o} : p \in ofds[x].holders) /\ ReleasePtyFds(p, {o})
        BY <1>5 DEF close_pty_fd
    <2>2. /\ RefsOK(ptys', ofds') /\ OwnOK(ptys', ttys')
          /\ \A x \in DOMAIN ofds' : x \in DOMAIN ofds /\ ofds'[x].holders \subseteq ofds[x].holders
        BY <2>1, ReleaseInv
    <2>3. JobsOK(job') /\ HeldOK(job', ofds')
        BY <1>5, <2>2 DEF close_pty_fd, JobInv, HeldOK
    <2>4. QED
        BY <2>2, <2>3 DEF JobInv
<1>6. ASSUME NEW p \in LiveJobs, job_exit(p)
      PROVE  JobInv'
    <2>1. PICK S : S = {o \in DOMAIN ofds : p \in ofds[o].holders}
        OBVIOUS
    <2>2. S \in SUBSET DOMAIN ofds /\ (\A o \in S : p \in ofds[o].holders) /\ ReleasePtyFds(p, S)
        BY <1>6, <2>1 DEF job_exit
    <2>3. /\ RefsOK(ptys', ofds') /\ OwnOK(ptys', ttys')
          /\ \A o \in DOMAIN ofds' : /\ o \in DOMAIN ofds /\ ofds'[o].holders \subseteq ofds[o].holders
                                     /\ o \in S => p \notin ofds'[o].holders
        BY <2>2, ReleaseInv
    <2>4. /\ DOMAIN job' = DOMAIN job
          /\ \A q \in DOMAIN job : IsJob(job'[q]) /\ (q # p => job'[q].zombie = job[q].zombie)
        <3>1. job' = [q \in DOMAIN job |->
                        IF q = p THEN [job[q] EXCEPT !.zombie = TRUE]
                        ELSE IF job[q].ppid = p THEN [job[q] EXCEPT !.ppid = 1] ELSE job[q]]
            BY <1>6 DEF job_exit
        <3>2. ASSUME NEW q \in DOMAIN job
              PROVE  IsJob(job'[q]) /\ (q # p => job'[q].zombie = job[q].zombie)
            <4>1. PICK j : j = job[q]
                OBVIOUS
            <4>2. IsJob(j)
                BY <4>1 DEF JobInv, JobsOK
            <4>3. job'[q] = IF q = p THEN [j EXCEPT !.zombie = TRUE]
                            ELSE IF j.ppid = p THEN [j EXCEPT !.ppid = 1] ELSE j
                BY <3>1, <4>1
            <4>4. QED
                BY <4>1, <4>2, <4>3 DEF IsJob
        <3>3. QED
            BY <3>1, <3>2
    <2>5. \A o \in DOMAIN ofds' : p \notin ofds'[o].holders
        BY <2>1, <2>3
    <2>6. JobsOK(job')
        BY <2>4 DEF JobInv, JobsOK
    <2>7. HeldOK(job', ofds')
        BY <2>3, <2>4, <2>5 DEF JobInv, HeldOK
    <2>8. QED
        BY <2>3, <2>6, <2>7 DEF JobInv
<1>7. ASSUME NEW p \in DOMAIN job, job_collect(p)
      PROVE  JobInv'
    <2>1. DOMAIN job' = DOMAIN job \ {p} /\ \A q \in DOMAIN job' : job'[q] = job[q]
        BY <1>7 DEF job_collect, Drop
    <2>2. JobsOK(job')
        BY <2>1 DEF JobInv, JobsOK
    <2>3. HeldOK(job', ofds)
        BY <1>7, <2>1 DEF job_collect, JobInv, HeldOK
    <2>4. QED
        BY <1>7, <2>2, <2>3 DEF job_collect, JobInv
<1>8. CASE UNCHANGED jobVars
    BY <1>8 DEF jobVars, JobInv
<1>9. QED
    BY <1>1, <1>2, <1>3, <1>4, <1>5, <1>6, <1>7, <1>8, OpenTtyInv, OpenPtyInv, JobSpawnInv DEF JobNext

-----------------------------------------------------------------------------
(***************************************************************************)
(* The line.  What a recursive sum of record lengths yields is shown from  *)
(* the least counterexample.                                               *)
(***************************************************************************)
(* f adds up the first numbers of r.                                       *)
SumsTo(f, r, m) ==
    /\ f \in [0..m -> Nat] /\ f[0] = 0
    /\ \A n \in 1..m : f[n] = f[n - 1] + r[n]

LEMMA SumsExist ==
    ASSUME NEW r \in Seq(Nat)
    PROVE  \E f : SumsTo(f, r, Len(r))
<1>1. PICK Bad : Bad = {m \in 0..Len(r) : ~\E f : SumsTo(f, r, m)}
    OBVIOUS
<1>2. SUFFICES ASSUME Bad # {} PROVE FALSE
    <2>1. Len(r) \in 0..Len(r)
        BY LenProperties
    <2>2. QED
        BY <1>1, <2>1
<1>3. Bad \in SUBSET Nat
    BY <1>1
<1>4. PICK m \in Bad : \A x \in Bad : m <= x
    BY <1>2, <1>3, LeastOf
<1>5. m # 0
    <2>1. PICK f : f = [n \in 0..0 |-> 0]
        OBVIOUS
    <2>2. SumsTo(f, r, 0)
        BY <2>1 DEF SumsTo
    <2>3. QED
        BY <1>1, <1>4, <2>2
<1>6. m - 1 \in 0..Len(r) /\ m \in 1..Len(r) /\ m - 1 \notin Bad
    BY <1>1, <1>3, <1>4, <1>5
<1>7. PICK f : SumsTo(f, r, m - 1)
    BY <1>1, <1>6
<1>8. PICK g : g = [n \in 0..m |-> IF n < m THEN f[n] ELSE f[m - 1] + r[m]]
    OBVIOUS
<1>9. g \in [0..m -> Nat] /\ g[0] = 0
    BY <1>5, <1>6, <1>7, <1>8 DEF SumsTo
<1>10. \A n \in 1..m : g[n] = g[n - 1] + r[n]
    BY <1>6, <1>7, <1>8 DEF SumsTo
<1>11. SumsTo(g, r, m)
    BY <1>9, <1>10 DEF SumsTo
<1>12. QED
    BY <1>1, <1>4, <1>11

(* Functions that grow alike keep their distance.                          *)
LEMMA Apart ==
    ASSUME NEW m \in Nat, NEW F \in [0..m -> Int], NEW G \in [0..m -> Int],
           \A n \in 1..m : F[n] - F[n - 1] = G[n] - G[n - 1]
    PROVE  \A n \in 0..m : F[n] - F[0] = G[n] - G[0]
<1>1. PICK Bad : Bad = {n \in 0..m : F[n] - F[0] # G[n] - G[0]}
    OBVIOUS
<1>2. SUFFICES ASSUME Bad # {} PROVE FALSE
    BY <1>1
<1>3. Bad \in SUBSET Nat
    BY <1>1
<1>4. PICK n \in Bad : \A x \in Bad : n <= x
    BY <1>2, <1>3, LeastOf
<1>5. n # 0 /\ n \in 0..m
    BY <1>1, <1>4
<1>6. n \in 1..m /\ n - 1 \in 0..m /\ 0 \in 0..m /\ ~(n <= n - 1)
    BY <1>5
<1>7. n - 1 \notin Bad
    BY <1>4, <1>6
<1>8. F[n - 1] - F[0] = G[n - 1] - G[0]
    BY <1>1, <1>6, <1>7
<1>9. F[n] \in Int /\ F[n - 1] \in Int /\ F[0] \in Int /\ G[n] \in Int /\ G[n - 1] \in Int /\ G[0] \in Int
    BY <1>6
<1>10. F[n] - F[0] = G[n] - G[0]
    <2>1. F[n] - F[n - 1] = G[n] - G[n - 1]
        BY <1>6
    <2>2. PICK a \in Int, b \in Int, c \in Int : a = F[n] /\ b = F[n - 1] /\ c = F[0]
        BY <1>9
    <2>3. PICK d \in Int, e \in Int, f \in Int : d = G[n] /\ e = G[n - 1] /\ f = G[0]
        BY <1>9
    <2>4. a - b = d - e /\ b - c = e - f
        BY <1>8, <2>1, <2>2, <2>3
    <2>5. a - c = d - f
        BY <2>4
    <2>6. QED
        BY <2>2, <2>3, <2>5
<1>11. QED
    BY <1>1, <1>4, <1>10

LEMMA QueuedSums ==
    ASSUME NEW r \in Seq(Nat)
    PROVE  SumsTo(QueuedUpTo(r), r, Len(r))
<1>1. PICK f : SumsTo(f, r, Len(r))
    BY SumsExist
<1>2. f = [n \in 0..Len(r) |-> IF n = 0 THEN 0 ELSE f[n - 1] + r[n]]
    BY <1>1 DEF SumsTo
<1>3. QueuedUpTo(r) = [n \in 0..Len(r) |-> IF n = 0 THEN 0 ELSE QueuedUpTo(r)[n - 1] + r[n]]
    BY <1>2 DEF QueuedUpTo
<1>4. QED
    <2>1. PICK q : q = QueuedUpTo(r)
        OBVIOUS
    <2>2. q = [n \in 0..Len(r) |-> IF n = 0 THEN 0 ELSE q[n - 1] + r[n]]
        BY <1>3, <2>1
    <2>3. q[0] = 0 /\ \A n \in 1..Len(r) : q[n] = q[n - 1] + r[n]
        BY <2>2
    <2>4. \A n \in 0..Len(r) : q[n] = f[n]
        <3>1. PICK Bad : Bad = {n \in 0..Len(r) : f[n] # q[n]}
            OBVIOUS
        <3>2. SUFFICES ASSUME Bad # {} PROVE FALSE
            BY <3>1
        <3>3. Bad \in SUBSET Nat
            BY <3>1
        <3>4. PICK n \in Bad : \A x \in Bad : n <= x
            BY <3>2, <3>3, LeastOf
        <3>5. n # 0
            BY <3>1, <3>4, <1>1, <2>3 DEF SumsTo
        <3>6. n \in 1..Len(r) /\ n - 1 \in 0..Len(r) /\ n - 1 \notin Bad
            BY <3>1, <3>3, <3>4, <3>5
        <3>7. f[n - 1] = q[n - 1]
            BY <3>1, <3>6
        <3>8. f[n] = f[n - 1] + r[n] /\ q[n] = q[n - 1] + r[n]
            BY <1>1, <2>3, <3>6 DEF SumsTo
        <3>9. QED
            BY <3>1, <3>4, <3>7, <3>8
    <2>5. q \in [0..Len(r) -> Nat]
        BY <1>1, <2>2, <2>4 DEF SumsTo
    <2>6. QED
        BY <2>1, <2>3, <2>5 DEF SumsTo

(* Sums never fall.                                                        *)
LEMMA QueuedGrows ==
    ASSUME NEW r \in Seq(Nat), NEW i \in 0..Len(r)
    PROVE  QueuedUpTo(r)[i] <= Queued(r) /\ Queued(r) \in Nat /\ QueuedUpTo(r)[i] \in Nat
<1>0. Len(r) \in Nat
    BY LenProperties
<1>1. PICK f : f = QueuedUpTo(r) /\ SumsTo(f, r, Len(r))
    BY QueuedSums
<1>2. PICK Bad : Bad = {n \in i..Len(r) : f[n] < f[i]}
    OBVIOUS
<1>3. Bad = {}
    <2>1. SUFFICES ASSUME Bad # {} PROVE FALSE
        OBVIOUS
    <2>2. Bad \in SUBSET Nat
        BY <1>2
    <2>3. PICK n \in Bad : \A x \in Bad : n <= x
        BY <2>1, <2>2, LeastOf
    <2>4. n # i
        BY <1>0, <1>1, <1>2, <2>3 DEF SumsTo
    <2>5. n \in 1..Len(r) /\ n - 1 \in i..Len(r) /\ n - 1 \notin Bad /\ n - 1 \in 0..Len(r)
        BY <1>0, <1>2, <2>2, <2>3, <2>4
    <2>6. f[n] = f[n - 1] + r[n] /\ f[n - 1] \in Nat /\ f[i] \in Nat /\ f[n] \in Nat /\ r[n] \in Nat
        <3>1. f \in [0..Len(r) -> Nat] /\ n \in 0..Len(r)
            BY <1>0, <1>1, <2>5 DEF SumsTo
        <3>2. r[n] \in Nat
            BY <2>5, ElementOfSeq
        <3>3. f[n] = f[n - 1] + r[n]
            BY <1>1, <2>5 DEF SumsTo
        <3>4. QED
            BY <2>5, <3>1, <3>2, <3>3
    <2>7. f[n - 1] >= f[i]
        BY <1>2, <2>5, <2>6
    <2>8. QED
        BY <1>2, <2>3, <2>6, <2>7
<1>4. Len(r) \in i..Len(r) /\ Len(r) \in 0..Len(r)
    BY <1>0
<1>5. f[Len(r)] \in Nat /\ f[i] \in Nat
    BY <1>1, <1>4 DEF SumsTo
<1>6. QED
    BY <1>1, <1>2, <1>3, <1>4, <1>5 DEF Queued

LEMMA QueuedEmpty == Queued(<<>>) = 0
<1>1. <<>> \in Seq(Nat) /\ Len(<<>>) = 0
    OBVIOUS
<1>2. SumsTo(QueuedUpTo(<<>>), <<>>, 0)
    BY <1>1, QueuedSums
<1>3. QED
    BY <1>1, <1>2 DEF SumsTo, Queued

(* A record more, at the end.                                              *)
LEMMA QueuedAppend ==
    ASSUME NEW r \in Seq(Nat), NEW x \in Nat
    PROVE  /\ \A n \in 0..Len(r) : QueuedUpTo(Append(r, x))[n] = QueuedUpTo(r)[n]
           /\ Queued(Append(r, x)) = Queued(r) + x
<1>1. PICK s : s = Append(r, x)
    OBVIOUS
<1>2. s \in Seq(Nat) /\ Len(s) = Len(r) + 1 /\ s[Len(r) + 1] = x /\ \A n \in 1..Len(r) : s[n] = r[n]
    BY <1>1, AppendProperties
<1>3. Len(r) \in Nat
    BY LenProperties
<1>4. PICK f : f = QueuedUpTo(r) /\ SumsTo(f, r, Len(r))
    BY QueuedSums
<1>5. PICK g : g = QueuedUpTo(s) /\ SumsTo(g, s, Len(s))
    BY <1>2, QueuedSums
<1>6. PICK h : h = [n \in 0..Len(r) |-> g[n]]
    OBVIOUS
<1>7. \A n \in 0..Len(r) : f[n] = g[n]
    <2>1. f \in [0..Len(r) -> Nat] /\ g \in [0..Len(s) -> Nat] /\ f[0] = 0 /\ g[0] = 0
        BY <1>4, <1>5 DEF SumsTo
    <2>2. f \in [0..Len(r) -> Int] /\ h \in [0..Len(r) -> Int] /\ h[0] = 0
        BY <1>2, <1>3, <1>6, <2>1
    <2>3. ASSUME NEW n \in 1..Len(r)
          PROVE  f[n] - f[n - 1] = h[n] - h[n - 1]
        <3>1. n \in 1..Len(s) /\ n \in 0..Len(r) /\ n - 1 \in 0..Len(r) /\ n \in 0..Len(s) /\ n - 1 \in 0..Len(s)
            BY <1>2, <1>3
        <3>2. f[n] = f[n - 1] + r[n] /\ g[n] = g[n - 1] + r[n]
            BY <1>2, <1>4, <1>5, <3>1 DEF SumsTo
        <3>3. r[n] \in Nat
            BY ElementOfSeq
        <3>4. h[n] = g[n] /\ h[n - 1] = g[n - 1]
            BY <1>6, <3>1, Zenon
        <3>5. f[n - 1] \in Nat /\ g[n - 1] \in Nat
            BY <2>1, <3>1, Zenon
        <3>6. PICK a, b, c : a = f[n - 1] /\ b = g[n - 1] /\ c = r[n]
            OBVIOUS
        <3>7. (a + c) - a = (b + c) - b
            BY <3>3, <3>5, <3>6
        <3>8. QED
            BY <3>2, <3>4, <3>6, <3>7, Zenon
    <2>4. \A n \in 0..Len(r) : f[n] - f[0] = h[n] - h[0]
        BY <1>3, <2>2, <2>3, Apart
    <2>5. SUFFICES ASSUME NEW n \in 0..Len(r) PROVE f[n] = g[n]
        OBVIOUS
    <2>6. f[n] - f[0] = h[n] - h[0] /\ h[n] = g[n] /\ f[n] \in Nat /\ h[n] \in Int
        BY <1>6, <2>1, <2>2, <2>4
    <2>7. QED
        BY <2>1, <2>2, <2>6
<1>8. g[Len(s)] = g[Len(r)] + x
    <2>1. PICK m : m = Len(r) /\ m \in Nat
        BY <1>3
    <2>2. Len(s) = m + 1 /\ m + 1 \in 1..(m + 1) /\ (m + 1) - 1 = m /\ s[m + 1] = x
        BY <1>2, <2>1
    <2>3. g[m + 1] = g[(m + 1) - 1] + s[m + 1]
        BY <1>5, <2>2, Zenon DEF SumsTo
    <2>4. QED
        BY <2>1, <2>2, <2>3, Zenon
<1>9. QED
    BY <1>1, <1>2, <1>3, <1>4, <1>5, <1>7, <1>8 DEF Queued

(* The first record goes.                                                  *)
LEMMA QueuedTail ==
    ASSUME NEW r \in Seq(Nat), r # <<>>
    PROVE  /\ \A n \in 0..(Len(r) - 1) : QueuedUpTo(Tail(r))[n] = QueuedUpTo(r)[n + 1] - r[1]
           /\ Queued(Tail(r)) = Queued(r) - r[1]
<1>1. PICK s : s = Tail(r)
    OBVIOUS
<1>2. s \in Seq(Nat) /\ Len(s) = Len(r) - 1 /\ \A n \in 1..Len(s) : s[n] = r[n + 1]
    BY <1>1, HeadTailProperties
<1>3. Len(r) \in Nat /\ Len(r) > 0 /\ Len(s) \in Nat
    BY <1>2, LenProperties, EmptySeq
<1>4. PICK f : f = QueuedUpTo(r) /\ SumsTo(f, r, Len(r))
    BY QueuedSums
<1>5. PICK g : g = QueuedUpTo(s) /\ SumsTo(g, s, Len(s))
    BY <1>2, QueuedSums
<1>6. \A n \in 0..Len(s) : f[n + 1] - f[1] = g[n] - g[0]
    <2>1. PICK h : h = [n \in 0..Len(s) |-> f[n + 1]]
        OBVIOUS
    <2>2. f \in [0..Len(r) -> Nat] /\ g \in [0..Len(s) -> Nat]
        BY <1>4, <1>5 DEF SumsTo
    <2>3. g \in [0..Len(s) -> Int] /\ h \in [0..Len(s) -> Int] /\ h[0] = f[1]
        BY <1>2, <1>3, <2>1, <2>2
    <2>4. ASSUME NEW n \in 1..Len(s)
          PROVE  h[n] - h[n - 1] = g[n] - g[n - 1]
        <3>1. /\ n + 1 \in 1..Len(r) /\ (n + 1) - 1 = n /\ (n - 1) + 1 = n
              /\ n \in 0..Len(r) /\ n + 1 \in 0..Len(r) /\ n \in 0..Len(s) /\ n - 1 \in 0..Len(s)
            BY <1>2, <1>3
        <3>2. f[n + 1] = f[n] + r[n + 1] /\ g[n] = g[n - 1] + r[n + 1]
            BY <1>2, <1>4, <1>5, <3>1 DEF SumsTo
        <3>3. r[n + 1] \in Nat
            BY <3>1, ElementOfSeq
        <3>4. h[n] = f[n + 1] /\ h[n - 1] = f[n]
            BY <2>1, <3>1
        <3>5. f[n] \in Nat /\ f[n + 1] \in Nat /\ g[n] \in Nat /\ g[n - 1] \in Nat
            BY <2>2, <3>1
        <3>6. QED
            BY <3>2, <3>3, <3>4, <3>5
    <2>5. \A n \in 0..Len(s) : h[n] - h[0] = g[n] - g[0]
        BY <1>3, <2>3, <2>4, Apart
    <2>6. QED
        BY <2>1, <2>3, <2>5
<1>7. f[1] = r[1] /\ r[1] \in Nat
    <2>1. 1 \in 1..Len(r) /\ 1 - 1 = 0
        BY <1>3
    <2>2. f[1] = f[0] + r[1] /\ f[0] = 0 /\ r[1] \in Nat
        BY <1>4, <2>1, ElementOfSeq DEF SumsTo
    <2>3. QED
        BY <2>2
<1>8. \A n \in 0..(Len(r) - 1) : g[n] = f[n + 1] - r[1]
    <2>1. SUFFICES ASSUME NEW n \in 0..(Len(r) - 1) PROVE g[n] = f[n + 1] - r[1]
        OBVIOUS
    <2>2. n \in 0..Len(s) /\ n + 1 \in 0..Len(r)
        BY <1>2, <1>3
    <2>3. f[n + 1] - f[1] = g[n] - g[0]
        BY <1>6, <2>2
    <2>4. g[0] = 0 /\ g[n] \in Nat /\ f[n + 1] \in Nat
        BY <1>4, <1>5, <2>2 DEF SumsTo
    <2>5. QED
        BY <1>7, <2>3, <2>4
<1>9. Len(r) - 1 \in 0..(Len(r) - 1) /\ (Len(r) - 1) + 1 = Len(r)
    BY <1>3
<1>10. g[Len(s)] = f[Len(r)] - r[1]
    BY <1>2, <1>8, <1>9
<1>11. QED
    BY <1>1, <1>4, <1>5, <1>8, <1>10 DEF Queued

(* The first record is shortened.                                          *)
LEMMA QueuedFirst ==
    ASSUME NEW r \in Seq(Nat), r # <<>>, NEW x \in Nat
    PROVE  /\ \A n \in 1..Len(r) : QueuedUpTo([r EXCEPT ![1] = x])[n] = QueuedUpTo(r)[n] - r[1] + x
           /\ QueuedUpTo([r EXCEPT ![1] = x])[0] = 0
           /\ Queued([r EXCEPT ![1] = x]) = Queued(r) - r[1] + x
<1>1. PICK s : s = [r EXCEPT ![1] = x]
    OBVIOUS
<1>2. s \in Seq(Nat) /\ Len(s) = Len(r) /\ s[1] = x /\ \A n \in 2..Len(r) : s[n] = r[n]
    BY <1>1
<1>3. Len(r) \in Nat /\ Len(r) > 0
    BY LenProperties, EmptySeq
<1>4. PICK f : f = QueuedUpTo(r) /\ SumsTo(f, r, Len(r))
    BY QueuedSums
<1>5. PICK g : g = QueuedUpTo(s) /\ SumsTo(g, s, Len(s))
    BY <1>2, QueuedSums
<1>6. \A n \in 0..(Len(r) - 1) : f[n + 1] - f[1] = g[n + 1] - g[1]
    <2>1. PICK m : m = Len(r) - 1
        OBVIOUS
    <2>2. m \in Nat
        BY <1>3, <2>1
    <2>3. PICK h : h = [n \in 0..m |-> f[n + 1]]
        OBVIOUS
    <2>4. PICK k : k = [n \in 0..m |-> g[n + 1]]
        OBVIOUS
    <2>5. f \in [0..Len(r) -> Nat] /\ g \in [0..Len(r) -> Nat]
        BY <1>2, <1>4, <1>5 DEF SumsTo
    <2>6. h \in [0..m -> Int] /\ k \in [0..m -> Int] /\ h[0] = f[1] /\ k[0] = g[1]
        BY <1>3, <2>1, <2>2, <2>3, <2>4, <2>5
    <2>7. ASSUME NEW n \in 1..m
          PROVE  h[n] - h[n - 1] = k[n] - k[n - 1]
        <3>1. /\ n + 1 \in 2..Len(r) /\ n + 1 \in 1..Len(r) /\ (n + 1) - 1 = n /\ (n - 1) + 1 = n
              /\ n \in 0..Len(r) /\ n + 1 \in 0..Len(r) /\ n \in 0..m /\ n - 1 \in 0..m
            BY <1>3, <2>1, <2>2
        <3>2. f[n + 1] = f[n] + r[n + 1] /\ g[n + 1] = g[n] + r[n + 1]
            BY <1>2, <1>4, <1>5, <3>1 DEF SumsTo
        <3>3. r[n + 1] \in Nat
            BY <3>1, ElementOfSeq
        <3>4. h[n] = f[n + 1] /\ h[n - 1] = f[n] /\ k[n] = g[n + 1] /\ k[n - 1] = g[n]
            BY <2>3, <2>4, <3>1
        <3>5. f[n] \in Nat /\ f[n + 1] \in Nat /\ g[n] \in Nat /\ g[n + 1] \in Nat
            BY <2>5, <3>1
        <3>6. QED
            BY <3>2, <3>3, <3>4, <3>5
    <2>8. \A n \in 0..m : h[n] - h[0] = k[n] - k[0]
        BY <2>2, <2>6, <2>7, Apart
    <2>9. QED
        BY <2>1, <2>3, <2>4, <2>6, <2>8
<1>7. f[1] = r[1] /\ r[1] \in Nat /\ g[1] = x
    <2>1. 1 \in 1..Len(r) /\ 1 - 1 = 0
        BY <1>3
    <2>2. f[1] = f[0] + r[1] /\ f[0] = 0 /\ r[1] \in Nat
        BY <1>4, <2>1, ElementOfSeq DEF SumsTo
    <2>3. g[1] = g[0] + s[1] /\ g[0] = 0
        BY <1>2, <1>5, <2>1 DEF SumsTo
    <2>4. QED
        BY <1>2, <2>2, <2>3
<1>8. \A n \in 1..Len(r) : g[n] = f[n] - r[1] + x
    <2>1. SUFFICES ASSUME NEW n \in 1..Len(r) PROVE g[n] = f[n] - r[1] + x
        OBVIOUS
    <2>2. n - 1 \in 0..(Len(r) - 1) /\ (n - 1) + 1 = n /\ n \in 0..Len(r)
        BY <1>3
    <2>3. f[n] - f[1] = g[n] - g[1]
        BY <1>6, <2>2
    <2>4. g[n] \in Nat /\ f[n] \in Nat
        BY <1>2, <1>4, <1>5, <2>2 DEF SumsTo
    <2>5. QED
        BY <1>7, <2>3, <2>4
<1>9. Len(r) \in 1..Len(r)
    BY <1>3
<1>10. g[Len(s)] = f[Len(r)] - r[1] + x /\ g[0] = 0
    BY <1>2, <1>5, <1>8, <1>9 DEF SumsTo
<1>11. QED
    BY <1>1, <1>4, <1>5, <1>8, <1>10 DEF Queued

-----------------------------------------------------------------------------
(* The queue to the slave and its records.  While they cover the queue,    *)
(* only the last byte of a record is a newline.                            *)
Letters == {"a", "nl"}

OneLine(q, r) ==
    \A i \in 1..Len(r) :
        \A k \in (QueuedUpTo(r)[i - 1] + 1)..(QueuedUpTo(r)[i - 1] + r[i] - 1) : q[k] # "nl"

QueueOK(q, r, cooked) ==
    /\ q \in Seq(Letters) /\ Len(q) <= PTY_BUF
    /\ r \in Seq(Nat \ {0})
    /\ Queued(r) <= Len(q)
    /\ cooked /\ Queued(r) = Len(q) => OneLine(q, r)

LEMMA RecordsAreNat == \A r \in Seq(Nat \ {0}) : r \in Seq(Nat)
    OBVIOUS

(* A line is committed.                                                    *)
LEMMA CommitQueue ==
    ASSUME NEW q, NEW r, NEW cooked, QueueOK(q, r, cooked), NEW f \in Seq(Letters), f # <<>>,
           Len(q) + Len(f) <= PTY_BUF, \A k \in 1..(Len(f) - 1) : f[k] # "nl"
    PROVE  QueueOK(q \o f, Append(r, Len(f)), cooked)
<1>1. q \in Seq(Letters) /\ r \in Seq(Nat \ {0}) /\ r \in Seq(Nat)
    BY RecordsAreNat DEF QueueOK
<1>2. Len(q) \in Nat /\ Len(f) \in Nat \ {0} /\ Len(r) \in Nat
    BY <1>1, LenProperties, EmptySeq
<1>3. PICK p : p = q \o f
    OBVIOUS
<1>4. /\ p \in Seq(Letters) /\ Len(p) = Len(q) + Len(f)
      /\ \A k \in 1..Len(q) : p[k] = q[k]
      /\ \A k \in (Len(q) + 1)..Len(p) : p[k] = f[k - Len(q)]
    BY <1>1, <1>2, <1>3, ConcatProperties
<1>5. PICK s : s = Append(r, Len(f))
    OBVIOUS
<1>6. /\ s \in Seq(Nat \ {0}) /\ Len(s) = Len(r) + 1 /\ s[Len(r) + 1] = Len(f)
      /\ \A n \in 1..Len(r) : s[n] = r[n]
    BY <1>1, <1>2, <1>5, AppendProperties
<1>7. /\ \A n \in 0..Len(r) : QueuedUpTo(s)[n] = QueuedUpTo(r)[n]
      /\ Queued(s) = Queued(r) + Len(f)
    BY <1>1, <1>2, <1>5, QueuedAppend
<1>8. Queued(r) \in Nat
    <2>1. 0 \in 0..Len(r)
        BY <1>2
    <2>2. QED
        BY <1>1, <2>1, QueuedGrows
<1>9. ASSUME cooked, Queued(s) = Len(p)
      PROVE  OneLine(p, s)
    <2>1. Queued(r) = Len(q) /\ OneLine(q, r)
        BY <1>2, <1>4, <1>7, <1>8, <1>9 DEF QueueOK
    <2>2. SUFFICES ASSUME NEW i \in 1..Len(s),
                          NEW k \in (QueuedUpTo(s)[i - 1] + 1)..(QueuedUpTo(s)[i - 1] + s[i] - 1)
                   PROVE  p[k] # "nl"
        BY DEF OneLine
    <2>3. i - 1 \in 0..Len(r) /\ QueuedUpTo(s)[i - 1] = QueuedUpTo(r)[i - 1] /\ QueuedUpTo(r)[i - 1] \in Nat
        <3>1. i - 1 \in 0..Len(r)
            BY <1>2, <1>6
        <3>2. QED
            BY <1>1, <1>7, <3>1, QueuedGrows
    <2>4. CASE i \in 1..Len(r)
        <3>1. s[i] = r[i] /\ r[i] \in Nat
            BY <1>1, <1>6, <2>4, ElementOfSeq
        <3>2. k \in (QueuedUpTo(r)[i - 1] + 1)..(QueuedUpTo(r)[i - 1] + r[i] - 1)
            BY <2>3, <3>1
        <3>3. q[k] # "nl"
            BY <2>1, <2>4, <3>2 DEF OneLine
        <3>4. QueuedUpTo(r)[i] = QueuedUpTo(r)[i - 1] + r[i]
            BY <1>1, <2>4, QueuedSums DEF SumsTo
        <3>5. QueuedUpTo(r)[i] <= Len(q)
            <4>1. i \in 0..Len(r)
                BY <1>2, <2>4
            <4>2. QED
                BY <1>1, <2>1, <4>1, QueuedGrows
        <3>6. k \in 1..Len(q)
            <4>1. PICK a, b, n : a = QueuedUpTo(r)[i - 1] /\ b = r[i] /\ n = Len(q)
                OBVIOUS
            <4>2. a \in Nat /\ b \in Nat /\ n \in Nat /\ a + b <= n
                BY <1>2, <2>3, <3>1, <3>4, <3>5, <4>1
            <4>3. k \in (a + 1)..(a + b - 1)
                BY <3>2, <4>1
            <4>4. k \in 1..n
                BY <4>2, <4>3
            <4>5. QED
                BY <4>1, <4>4
        <3>7. QED
            BY <1>4, <3>3, <3>6
    <2>5. CASE i = Len(r) + 1
        <3>1. s[i] = Len(f) /\ QueuedUpTo(r)[i - 1] = Len(q)
            BY <1>2, <1>6, <2>1, <2>5 DEF Queued
        <3>2. k \in (Len(q) + 1)..(Len(q) + Len(f) - 1)
            BY <2>3, <3>1
        <3>3. k \in (Len(q) + 1)..Len(p) /\ k - Len(q) \in 1..(Len(f) - 1)
            BY <1>2, <1>4, <3>2
        <3>4. QED
            BY <1>4, <3>3
    <2>6. QED
        BY <1>2, <1>6, <2>4, <2>5
<1>10. QueueOK(p, s, cooked)
    BY <1>2, <1>4, <1>6, <1>7, <1>8, <1>9 DEF QueueOK
<1>11. QED
    BY <1>3, <1>5, <1>10

LEMMA FirstShortened ==
    ASSUME NEW r \in Seq(Nat \ {0}), r # <<>>, NEW x \in Nat \ {0}
    PROVE  /\ [r EXCEPT ![1] = x] \in Seq(Nat \ {0}) /\ Len([r EXCEPT ![1] = x]) = Len(r)
           /\ [r EXCEPT ![1] = x][1] = x
           /\ \A i \in 2..Len(r) : [r EXCEPT ![1] = x][i] = r[i]
<1>1. Len(r) \in Nat \ {0}
    BY LenProperties, EmptySeq
<1>2. PICK s : s = [r EXCEPT ![1] = x]
    OBVIOUS
<1>3. s \in Seq(Nat \ {0}) /\ Len(s) = Len(r)
    BY <1>1, <1>2
<1>4. s[1] = x /\ \A i \in 2..Len(r) : s[i] = r[i]
    BY <1>1, <1>2
<1>5. QED
    BY <1>2, <1>3, <1>4

(* A read that takes n bytes, when each record left ends where one ended   *)
(* before and begins no earlier.                                           *)
Follows(s, r, n) ==
    \A i \in 1..Len(s) :
        \E j \in 1..Len(r) :
            /\ QueuedUpTo(s)[i - 1] \in Nat /\ s[i] \in Nat
            /\ QueuedUpTo(s)[i - 1] + n >= QueuedUpTo(r)[j - 1]
            /\ QueuedUpTo(s)[i - 1] + s[i] + n = QueuedUpTo(r)[j]

LEMMA ReadQueue ==
    ASSUME NEW q, NEW r, NEW cooked, QueueOK(q, r, cooked), NEW n \in Nat, n <= Queued(r),
           NEW s \in Seq(Nat \ {0}), Queued(s) = Queued(r) - n, Follows(s, r, n)
    PROVE  QueueOK(SubSeq(q, n + 1, Len(q)), s, cooked)
<1>1. q \in Seq(Letters) /\ r \in Seq(Nat \ {0}) /\ r \in Seq(Nat)
    BY RecordsAreNat DEF QueueOK
<1>2. Len(q) \in Nat /\ Len(r) \in Nat
    BY <1>1, LenProperties
<1>3. Queued(r) \in Nat /\ Queued(r) <= Len(q)
    <2>1. 0 \in 0..Len(r)
        BY <1>2
    <2>2. QED
        BY <1>1, <2>1, QueuedGrows DEF QueueOK
<1>5. n <= Len(q)
    BY <1>2, <1>3
<1>6. PICK p : p = SubSeq(q, n + 1, Len(q))
    OBVIOUS
<1>7. p \in Seq(Letters) /\ Len(p) = Len(q) - n /\ \A k \in 1..(Len(q) - n) : p[k] = q[k + n]
    BY <1>1, <1>2, <1>5, <1>6, SubSeqProperties
<1>9. ASSUME cooked, Queued(s) = Len(p)
      PROVE  OneLine(p, s)
    <2>1. Queued(r) = Len(q) /\ OneLine(q, r)
        BY <1>2, <1>3, <1>7, <1>9 DEF QueueOK
    <2>2. SUFFICES ASSUME NEW i \in 1..Len(s),
                          NEW k \in (QueuedUpTo(s)[i - 1] + 1)..(QueuedUpTo(s)[i - 1] + s[i] - 1)
                   PROVE  p[k] # "nl"
        BY DEF OneLine
    <2>3. PICK j \in 1..Len(r) :
                /\ QueuedUpTo(s)[i - 1] \in Nat /\ s[i] \in Nat
                /\ QueuedUpTo(s)[i - 1] + n >= QueuedUpTo(r)[j - 1]
                /\ QueuedUpTo(s)[i - 1] + s[i] + n = QueuedUpTo(r)[j]
        BY DEF Follows
    <2>4. QueuedUpTo(r)[j] = QueuedUpTo(r)[j - 1] + r[j] /\ r[j] \in Nat
        BY <1>1, QueuedSums, ElementOfSeq DEF SumsTo
    <2>5. QueuedUpTo(r)[j] <= Len(q) /\ QueuedUpTo(r)[j - 1] \in Nat /\ QueuedUpTo(r)[j] \in Nat
        <3>1. j \in 0..Len(r) /\ j - 1 \in 0..Len(r)
            BY <1>2
        <3>2. QED
            BY <1>1, <2>1, <3>1, QueuedGrows
    <2>6. /\ k + n \in (QueuedUpTo(r)[j - 1] + 1)..(QueuedUpTo(r)[j - 1] + r[j] - 1)
          /\ k \in 1..(Len(q) - n)
        <3>1. PICK a \in Nat, b \in Nat, c \in Nat, d \in Nat :
                /\ a = QueuedUpTo(s)[i - 1] /\ b = QueuedUpTo(r)[j - 1]
                /\ c = QueuedUpTo(r)[j] /\ d = s[i]
            BY <2>3, <2>5
        <3>2. k \in (a + 1)..(a + d - 1) /\ a + n >= b /\ a + d + n = c /\ c = b + r[j] /\ c <= Len(q)
            BY <2>2, <2>3, <2>4, <2>5, <3>1
        <3>3. PICK h \in Int, e \in Nat, l \in Nat : h = k /\ e = r[j] /\ l = Len(q)
            <4>1. k \in Int
                BY <3>2
            <4>2. QED
                BY <1>2, <2>4, <4>1, Zenon
        <3>4. a + 1 <= h /\ h <= a + d - 1 /\ a + n >= b /\ a + d + n = c /\ c = b + e /\ c <= l
            BY <3>2, <3>3
        <3>5. b + 1 <= h + n /\ h + n <= b + e - 1 /\ 1 <= h /\ h <= l - n
            BY <3>4
        <3>6. h + n \in (b + 1)..(b + e - 1) /\ h \in 1..(l - n)
            BY <3>5
        <3>7. QED
            BY <3>1, <3>3, <3>6
    <2>8. q[k + n] # "nl"
        BY <2>1, <2>6 DEF OneLine
    <2>9. QED
        BY <1>7, <2>6, <2>8
<1>10. QueueOK(p, s, cooked)
    <2>1. Queued(s) <= Len(p) /\ Len(p) <= PTY_BUF
        <3>1. Len(q) <= PTY_BUF /\ PTY_BUF \in Nat
            BY TtyAssumption DEF QueueOK
        <3>3. QED
            BY <1>2, <1>3, <1>7, <3>1
    <2>2. QED
        BY <1>7, <1>9, <2>1 DEF QueueOK
<1>11. QED
    BY <1>6, <1>10

(* The first record is part of what is queued.                             *)
LEMMA FirstQueued ==
    ASSUME NEW r \in Seq(Nat), r # <<>>
    PROVE  /\ QueuedUpTo(r)[1] = r[1] /\ r[1] <= Queued(r) /\ Queued(r) \in Nat
           /\ QueuedUpTo(r)[0] = 0 /\ r[1] \in Nat
<1>1. Len(r) \in Nat \ {0}
    BY LenProperties, EmptySeq
<1>2. 1 \in 1..Len(r) /\ 1 \in 0..Len(r) /\ 1 - 1 = 0
    BY <1>1
<1>3. QueuedUpTo(r)[1] = QueuedUpTo(r)[0] + r[1] /\ QueuedUpTo(r)[0] = 0
    BY <1>2, QueuedSums DEF SumsTo
<1>4. r[1] \in Nat
    BY <1>2, ElementOfSeq
<1>5. QED
    BY <1>2, <1>3, <1>4, QueuedGrows

(* A canonical read takes the first record,                                *)
LEMMA ReadRecord ==
    ASSUME NEW q, NEW r, NEW cooked, QueueOK(q, r, cooked), r # <<>>
    PROVE  QueueOK(SubSeq(q, r[1] + 1, Len(q)), Tail(r), cooked)
<1>1. r \in Seq(Nat \ {0}) /\ r \in Seq(Nat)
    BY RecordsAreNat DEF QueueOK
<1>2. Len(r) \in Nat \ {0}
    BY <1>1, LenProperties, EmptySeq
<1>3. PICK n \in Nat : n = r[1]
    BY <1>1, FirstQueued
<1>4. n <= Queued(r)
    BY <1>1, <1>3, FirstQueued
<1>5. PICK s : s = Tail(r)
    OBVIOUS
<1>6. s \in Seq(Nat \ {0}) /\ s \in Seq(Nat) /\ Len(s) = Len(r) - 1 /\ \A i \in 1..Len(s) : s[i] = r[i + 1]
    BY <1>1, <1>2, <1>5, HeadTailProperties
<1>7. /\ \A i \in 0..(Len(r) - 1) : QueuedUpTo(s)[i] = QueuedUpTo(r)[i + 1] - n
      /\ Queued(s) = Queued(r) - n
    BY <1>1, <1>3, <1>5, QueuedTail
<1>8. Follows(s, r, n)
    <2>1. SUFFICES ASSUME NEW i \in 1..Len(s)
                   PROVE  \E j \in 1..Len(r) :
                            /\ QueuedUpTo(s)[i - 1] \in Nat /\ s[i] \in Nat
                            /\ QueuedUpTo(s)[i - 1] + n >= QueuedUpTo(r)[j - 1]
                            /\ QueuedUpTo(s)[i - 1] + s[i] + n = QueuedUpTo(r)[j]
        BY DEF Follows
    <2>2. /\ i + 1 \in 1..Len(r) /\ (i + 1) - 1 = i /\ i - 1 \in 0..(Len(r) - 1) /\ (i - 1) + 1 = i
          /\ i \in 0..Len(r) /\ i - 1 \in 0..Len(s) /\ i + 1 \in 0..Len(r)
        BY <1>2, <1>6
    <2>3. QueuedUpTo(s)[i - 1] = QueuedUpTo(r)[i] - n
        BY <1>7, <2>2
    <2>4. QueuedUpTo(r)[i + 1] = QueuedUpTo(r)[i] + r[i + 1]
        BY <1>1, <2>2, QueuedSums DEF SumsTo
    <2>5. s[i] = r[i + 1] /\ s[i] \in Nat
        BY <1>6, ElementOfSeq
    <2>6. QueuedUpTo(r)[i] \in Nat /\ QueuedUpTo(s)[i - 1] \in Nat
        BY <1>1, <1>6, <2>2, QueuedGrows
    <2>7. PICK a \in Nat, b \in Nat, d \in Nat : a = QueuedUpTo(s)[i - 1] /\ b = QueuedUpTo(r)[i] /\ d = s[i]
        BY <2>5, <2>6
    <2>8. a + n >= b /\ a + d + n = b + d
        BY <2>3, <2>7
    <2>9. QED
        BY <2>2, <2>4, <2>5, <2>7, <2>8
<1>9. QED
    BY <1>3, <1>4, <1>5, <1>6, <1>7, <1>8, ReadQueue

(* or part of it.                                                          *)
LEMMA ReadPart ==
    ASSUME NEW q, NEW r, NEW cooked, QueueOK(q, r, cooked), r # <<>>, NEW n \in Nat, n < r[1]
    PROVE  QueueOK(SubSeq(q, n + 1, Len(q)), [r EXCEPT ![1] = r[1] - n], cooked)
<1>1. r \in Seq(Nat \ {0}) /\ r \in Seq(Nat)
    BY RecordsAreNat DEF QueueOK
<1>2. Len(r) \in Nat \ {0}
    BY <1>1, LenProperties, EmptySeq
<1>3. PICK e \in Nat : e = r[1]
    BY <1>1, FirstQueued
<1>4. n <= Queued(r) /\ e <= Queued(r) /\ Queued(r) \in Nat /\ QueuedUpTo(r)[0] = 0 /\ QueuedUpTo(r)[1] = e
    BY <1>1, <1>3, FirstQueued
<1>5. PICK x \in Nat \ {0} : x = e - n
    BY <1>3
<1>6. PICK s : s = [r EXCEPT ![1] = x]
    OBVIOUS
<1>7. s \in Seq(Nat \ {0}) /\ s \in Seq(Nat) /\ Len(s) = Len(r) /\ s[1] = x /\ \A i \in 2..Len(r) : s[i] = r[i]
    BY <1>1, <1>6, FirstShortened, RecordsAreNat
<1>8. /\ \A i \in 1..Len(r) : QueuedUpTo(s)[i] = QueuedUpTo(r)[i] - e + x
      /\ QueuedUpTo(s)[0] = 0
      /\ Queued(s) = Queued(r) - e + x
    <2>1. x \in Nat
        OBVIOUS
    <2>2. QED
        BY <1>1, <1>3, <1>6, <2>1, QueuedFirst
<1>9. Queued(s) = Queued(r) - n
    BY <1>4, <1>5, <1>8
<1>10. Follows(s, r, n)
    <2>1. SUFFICES ASSUME NEW i \in 1..Len(s)
                   PROVE  /\ QueuedUpTo(s)[i - 1] \in Nat /\ s[i] \in Nat
                          /\ QueuedUpTo(s)[i - 1] + n >= QueuedUpTo(r)[i - 1]
                          /\ QueuedUpTo(s)[i - 1] + s[i] + n = QueuedUpTo(r)[i]
        BY <1>7 DEF Follows
    <2>2. i \in 0..Len(r) /\ i - 1 \in 0..Len(r) /\ i - 1 \in 0..Len(s) /\ i \in 1..Len(r)
        BY <1>2, <1>7
    <2>3. QueuedUpTo(r)[i] \in Nat /\ QueuedUpTo(r)[i - 1] \in Nat /\ QueuedUpTo(s)[i - 1] \in Nat
        BY <1>1, <1>7, <2>2, QueuedGrows
    <2>4. s[i] \in Nat
        BY <1>7, ElementOfSeq
    <2>5. PICK a \in Nat, b \in Nat, c \in Nat, d \in Nat :
            /\ a = QueuedUpTo(s)[i - 1] /\ b = QueuedUpTo(r)[i - 1] /\ c = QueuedUpTo(r)[i] /\ d = s[i]
        BY <2>3, <2>4
    <2>6. CASE i = 1
        <3>1. i - 1 = 0
            BY <2>6
        <3>2. a = 0 /\ b = 0 /\ c = e /\ d = x
            BY <1>4, <1>7, <1>8, <2>5, <2>6, <3>1
        <3>3. a + n >= b /\ a + d + n = c
            BY <1>5, <3>2
        <3>4. QED
            BY <2>5, <3>3
    <2>7. CASE i # 1
        <3>1. i - 1 \in 1..Len(r) /\ i \in 2..Len(r)
            BY <1>2, <2>2, <2>7
        <3>2. a = b - e + x
            BY <1>8, <2>5, <3>1
        <3>3. c = b + d
            BY <1>1, <1>7, <2>2, <2>5, <3>1, QueuedSums DEF SumsTo
        <3>4. a + n = b
            BY <1>5, <3>2
        <3>5. a + n >= b /\ a + d + n = c
            BY <3>3, <3>4
        <3>6. QED
            BY <2>5, <3>5
    <2>8. QED
        BY <2>6, <2>7
<1>11. QueueOK(SubSeq(q, n + 1, Len(q)), s, cooked)
    BY <1>4, <1>7, <1>9, <1>10, ReadQueue
<1>12. QED
    BY <1>3, <1>5, <1>6, <1>11

-----------------------------------------------------------------------------
(* The terminal.  Raw mode has neither an edit buffer nor records; the     *)
(* edit buffer holds no newline between two calls.                         *)
IsLine(t) ==
    t = [open |-> t.open, toMaster |-> t.toMaster, toSlave |-> t.toSlave, input |-> t.input,
         records |-> t.records, eof |-> t.eof, canonical |-> t.canonical, echo |-> t.echo,
         isig |-> t.isig, immediate |-> t.immediate,
         masterRefs |-> t.masterRefs, slaveRefs |-> t.slaveRefs]

QueuesOK(t) ==
    /\ IsLine(t) /\ t.open
    /\ t.toMaster \in 0..PTY_BUF /\ t.masterRefs \in {0, 1}
    /\ QueueOK(t.toSlave, t.records, t.canonical)
    /\ ~t.canonical => t.records = <<>>

InputOK(t) ==
    /\ t.input \in Seq({"a"}) /\ Len(t.input) <= CANON_BUF
    /\ ~t.canonical => t.input = <<>>

LineOK(t) == QueuesOK(t) /\ InputOK(t)

(* A step of the line that leaves its slaves alone.                        *)
Keeps(t, u) == LineOK(u) /\ u.slaveRefs = t.slaveRefs

Caps == PTY_BUF \in Nat \ {0} /\ CANON_BUF \in Nat \ {0} /\ MaxRead \in Nat \ {0}

LEMMA CapsOK == Caps
    BY TtyAssumption DEF Caps

LEMMA NoRecords ==
    ASSUME NEW q \in Seq(Letters), Len(q) <= PTY_BUF, NEW cooked
    PROVE  QueueOK(q, <<>>, cooked)
<1>1. Len(<<>>) = 0 /\ <<>> \in Seq(Nat \ {0}) /\ Len(q) \in Nat
    BY LenProperties
<1>2. OneLine(q, <<>>)
    BY <1>1 DEF OneLine
<1>3. QED
    BY <1>1, <1>2, QueuedEmpty DEF QueueOK

(* queue_echo only fills the queue to the master.                          *)
LEMMA EchoKeeps ==
    ASSUME NEW t, QueuesOK(t), NEW n \in Nat
    PROVE  /\ QueuesOK(queue_echo(t, n)) /\ queue_echo(t, n).input = t.input
           /\ queue_echo(t, n).canonical = t.canonical /\ queue_echo(t, n).slaveRefs = t.slaveRefs
           /\ queue_echo(t, n).toSlave = t.toSlave
<1>1. PICK m : m = IF t.echo THEN AtMost(t.toMaster + n, PTY_BUF) ELSE t.toMaster
    OBVIOUS
<1>2. m \in 0..PTY_BUF
    BY <1>1, CapsOK DEF QueuesOK, AtMost, Caps
<1>3. PICK u : u = [t EXCEPT !.toMaster = m]
    OBVIOUS
<1>4. queue_echo(t, n) = u
    BY <1>1, <1>3 DEF queue_echo
<1>5. /\ IsLine(u) /\ u.toMaster = m /\ u.open = t.open /\ u.toSlave = t.toSlave /\ u.records = t.records
      /\ u.canonical = t.canonical /\ u.input = t.input /\ u.slaveRefs = t.slaveRefs /\ u.masterRefs = t.masterRefs
    BY <1>3 DEF QueuesOK, IsLine
<1>6. QED
    BY <1>2, <1>4, <1>5 DEF QueuesOK

LEMMA EchoLine ==
    ASSUME NEW t, LineOK(t), NEW n \in Nat
    PROVE  Keeps(t, queue_echo(t, n))
    BY EchoKeeps DEF LineOK, Keeps, InputOK

LEMMA SetInput ==
    ASSUME NEW t, QueuesOK(t), NEW i
    PROVE  /\ QueuesOK([t EXCEPT !.input = i]) /\ [t EXCEPT !.input = i].input = i
           /\ [t EXCEPT !.input = i].canonical = t.canonical
           /\ [t EXCEPT !.input = i].slaveRefs = t.slaveRefs
           /\ [t EXCEPT !.input = i].toSlave = t.toSlave
<1>1. PICK u : u = [t EXCEPT !.input = i]
    OBVIOUS
<1>2. /\ IsLine(u) /\ u.toMaster = t.toMaster /\ u.open = t.open /\ u.toSlave = t.toSlave
      /\ u.records = t.records /\ u.canonical = t.canonical /\ u.input = i /\ u.slaveRefs = t.slaveRefs /\ u.masterRefs = t.masterRefs
    BY <1>1 DEF QueuesOK, IsLine
<1>3. QED
    BY <1>1, <1>2 DEF QueuesOK

(* What fits behind the queue.                                             *)
LEMMA FittingFacts ==
    ASSUME NEW q \in Seq(Letters), Len(q) <= PTY_BUF, NEW i \in Seq(Letters)
    PROVE  /\ Fitting(q, i) \in Seq(Letters) /\ Len(q) + Len(Fitting(q, i)) <= PTY_BUF
           /\ Len(Fitting(q, i)) <= Len(i)
           /\ \A k \in 1..Len(Fitting(q, i)) : Fitting(q, i)[k] = i[k]
<1>1. Len(q) \in Nat /\ Len(i) \in Nat /\ PTY_BUF \in Nat
    BY LenProperties, CapsOK DEF Caps
<1>2. PICK m : m = AtMost(Len(i), PTY_BUF - Len(q))
    OBVIOUS
<1>3. m \in Nat /\ m <= Len(i) /\ Len(q) + m <= PTY_BUF
    BY <1>1, <1>2 DEF AtMost
<1>4. PICK f : f = SubSeq(i, 1, m)
    OBVIOUS
<1>5. f \in Seq(Letters) /\ Len(f) = m /\ \A k \in 1..m : f[k] = i[k]
    BY <1>3, <1>4, SubSeqProperties
<1>6. Fitting(q, i) = f
    BY <1>2, <1>4 DEF Fitting
<1>7. QED
    BY <1>3, <1>5, <1>6

(* commit_canonical: an edit buffer whose last byte alone may be a newline.*)
LEMMA CommitKeeps ==
    ASSUME NEW t, QueuesOK(t), t.input \in Seq(Letters), \A k \in 1..(Len(t.input) - 1) : t.input[k] # "nl",
           ~t.canonical => t.input = <<>>
    PROVE  Keeps(t, commit_canonical(t))
<1>1. PICK f : f = Fitting(t.toSlave, t.input)
    OBVIOUS
<1>2. QueueOK(t.toSlave, t.records, t.canonical) /\ t.toSlave \in Seq(Letters) /\ Len(t.toSlave) <= PTY_BUF
    BY DEF QueuesOK, QueueOK
<1>3. /\ f \in Seq(Letters) /\ Len(t.toSlave) + Len(f) <= PTY_BUF /\ Len(f) <= Len(t.input)
      /\ \A k \in 1..Len(f) : f[k] = t.input[k]
    BY <1>1, <1>2, FittingFacts
<1>4. Len(f) \in Nat /\ Len(t.input) \in Nat
    BY <1>3, LenProperties
<1>5. PICK r : r = IF f = <<>> THEN t.records ELSE Append(t.records, Len(f))
    OBVIOUS
<1>6. QueueOK(t.toSlave \o f, r, t.canonical)
    <2>1. CASE f = <<>>
        BY <1>2, <1>5, <2>1, ConcatEmptySeq
    <2>2. CASE f # <<>>
        <3>1. \A k \in 1..(Len(f) - 1) : f[k] # "nl"
            BY <1>3, <1>4
        <3>2. QED
            BY <1>2, <1>3, <1>5, <2>2, <3>1, CommitQueue
    <2>3. QED
        BY <2>1, <2>2
<1>7. ~t.canonical => r = <<>>
    <2>1. SUFFICES ASSUME ~t.canonical PROVE r = <<>>
        OBVIOUS
    <2>2. Len(t.input) = 0
        BY <2>1, EmptySeq
    <2>3. f = <<>>
        BY <1>3, <1>4, <2>2, EmptySeq
    <2>4. QED
        BY <1>5, <2>1, <2>3 DEF QueuesOK
<1>8. PICK u : u = [t EXCEPT !.toSlave = t.toSlave \o f, !.input = <<>>, !.records = r]
    OBVIOUS
<1>9. commit_canonical(t) = u
    <2>1. commit_canonical(t) = [t EXCEPT !.toSlave = t.toSlave \o f, !.input = <<>>,
                                         !.records = IF f = <<>> THEN t.records ELSE Append(t.records, Len(f))]
        BY <1>1 DEF commit_canonical, QueuesOK, IsLine
    <2>2. QED
        BY <1>5, <1>8, <2>1
<1>10. /\ IsLine(u) /\ u.toMaster = t.toMaster /\ u.open = t.open /\ u.toSlave = t.toSlave \o f
       /\ u.records = r /\ u.canonical = t.canonical /\ u.input = <<>> /\ u.slaveRefs = t.slaveRefs /\ u.masterRefs = t.masterRefs
    BY <1>8 DEF QueuesOK, IsLine
<1>11. QueuesOK(u)
    BY <1>6, <1>7, <1>10 DEF QueuesOK
<1>12. InputOK(u)
    BY <1>10, CapsOK DEF InputOK, Caps
<1>13. QED
    BY <1>9, <1>10, <1>11, <1>12 DEF Keeps, LineOK

LEMMA LettersOfInput ==
    ASSUME NEW i \in Seq({"a"})
    PROVE  i \in Seq(Letters) /\ \A k \in 1..Len(i) : i[k] # "nl"
<1>1. i \in Seq(Letters)
    BY DEF Letters
<1>2. \A k \in 1..Len(i) : i[k] \in {"a"}
    BY ElementOfSeq
<1>3. QED
    BY <1>1, <1>2

LEMMA CommitLine ==
    ASSUME NEW t, LineOK(t)
    PROVE  Keeps(t, commit_canonical(t))
<1>1. t.input \in Seq(Letters) /\ \A k \in 1..Len(t.input) : t.input[k] # "nl"
    BY LettersOfInput DEF LineOK, InputOK
<1>2. Len(t.input) \in Nat
    BY <1>1, LenProperties
<1>3. \A k \in 1..(Len(t.input) - 1) : t.input[k] # "nl"
    BY <1>1, <1>2
<1>4. QED
    BY <1>1, <1>3, CommitKeeps DEF LineOK, InputOK

LEMMA InputLine ==
    ASSUME NEW t, LineOK(t), NEW i \in Seq({"a"}), Len(i) <= CANON_BUF, ~t.canonical => i = <<>>,
           NEW n \in Nat
    PROVE  Keeps(t, queue_echo([t EXCEPT !.input = i], n))
<1>1. PICK u : u = [t EXCEPT !.input = i]
    OBVIOUS
<1>2. QueuesOK(u) /\ u.input = i /\ u.canonical = t.canonical /\ u.slaveRefs = t.slaveRefs
    BY <1>1, SetInput DEF LineOK
<1>3. LineOK(u)
    BY <1>2 DEF LineOK, InputOK
<1>4. Keeps(u, queue_echo(u, n))
    BY <1>3, EchoLine
<1>5. QED
    BY <1>1, <1>2, <1>4 DEF Keeps

(* A key in raw mode.                                                      *)
LEMMA RawKey ==
    ASSUME NEW t, LineOK(t), ~t.canonical, Len(t.toSlave) < PTY_BUF, NEW x \in Letters
    PROVE  Keeps(t, queue_echo([t EXCEPT !.toSlave = Append(t.toSlave, x)], 1))
<1>1. PICK q : q = Append(t.toSlave, x)
    OBVIOUS
<1>2. t.toSlave \in Seq(Letters) /\ Len(t.toSlave) \in Nat
    BY LenProperties DEF LineOK, QueuesOK, QueueOK
<1>3. q \in Seq(Letters) /\ Len(q) <= PTY_BUF
    BY <1>1, <1>2, AppendProperties, CapsOK DEF Caps
<1>4. PICK u : u = [t EXCEPT !.toSlave = q]
    OBVIOUS
<1>5. /\ IsLine(u) /\ u.toMaster = t.toMaster /\ u.open = t.open /\ u.toSlave = q
      /\ u.records = t.records /\ u.canonical = t.canonical /\ u.input = t.input /\ u.slaveRefs = t.slaveRefs /\ u.masterRefs = t.masterRefs
    BY <1>4 DEF LineOK, QueuesOK, IsLine
<1>6. t.records = <<>>
    BY DEF LineOK, QueuesOK
<1>7. QueueOK(q, <<>>, t.canonical)
    BY <1>3, NoRecords
<1>8. LineOK(u)
    BY <1>5, <1>6, <1>7 DEF LineOK, QueuesOK, InputOK
<1>9. Keeps(u, queue_echo(u, 1))
    BY <1>8, EchoLine
<1>10. QED
    BY <1>1, <1>4, <1>5, <1>9 DEF Keeps

(* A key in canonical mode that is not edited away.                        *)
LEMMA TypedKey ==
    ASSUME NEW t, LineOK(t), t.canonical, Len(t.input) < CANON_BUF, NEW x \in Letters
    PROVE  /\ x # "nl" => Keeps(t, queue_echo([t EXCEPT !.input = Append(t.input, x)], 1))
           /\ Keeps(t, commit_canonical(queue_echo([t EXCEPT !.input = Append(t.input, x)], 1)))
<1>1. PICK i : i = Append(t.input, x)
    OBVIOUS
<1>2. t.input \in Seq(Letters) /\ (\A k \in 1..Len(t.input) : t.input[k] # "nl") /\ Len(t.input) \in Nat
    BY LettersOfInput, LenProperties DEF LineOK, InputOK
<1>3. i \in Seq(Letters) /\ Len(i) = Len(t.input) + 1 /\ \A k \in 1..Len(t.input) : i[k] = t.input[k]
    BY <1>1, <1>2, AppendProperties
<1>4. PICK u : u = [t EXCEPT !.input = i]
    OBVIOUS
<1>5. QueuesOK(u) /\ u.input = i /\ u.canonical = t.canonical /\ u.slaveRefs = t.slaveRefs
    BY <1>4, SetInput DEF LineOK
<1>6. PICK v : v = queue_echo(u, 1)
    OBVIOUS
<1>7. QueuesOK(v) /\ v.input = i /\ v.canonical = t.canonical /\ v.slaveRefs = t.slaveRefs
    BY <1>5, <1>6, EchoKeeps
<1>8. \A k \in 1..(Len(i) - 1) : i[k] # "nl"
    BY <1>2, <1>3
<1>9. Keeps(v, commit_canonical(v))
    BY <1>3, <1>7, <1>8, CommitKeeps
<1>10. ASSUME x # "nl"
       PROVE  Keeps(t, v)
    <2>1. x = "a"
        BY <1>10 DEF Letters
    <2>2. i \in Seq({"a"}) /\ Len(i) <= CANON_BUF
        BY <1>1, <1>2, <1>3, <2>1, AppendProperties, CapsOK DEF LineOK, InputOK, Caps
    <2>3. QED
        BY <1>7, <2>2 DEF Keeps, LineOK, InputOK
<1>11. QED
    BY <1>1, <1>4, <1>6, <1>7, <1>9, <1>10 DEF Keeps

LEMMA KeyKeeps ==
    ASSUME NEW t, LineOK(t), NEW raw
    PROVE  Keeps(t, master_input_byte(t, raw))
<1>1. PICK b : b = IF raw = "cr" THEN "nl" ELSE raw
    OBVIOUS
<1>2. PICK x : x = Byte(b)
    OBVIOUS
<1>3. x \in Letters /\ (x = "nl" <=> b = "nl")
    BY <1>2 DEF Byte, Letters
<1>4. PICK typed : typed = IF Len(t.input) < CANON_BUF
                           THEN queue_echo([t EXCEPT !.input = Append(t.input, x)], 1) ELSE t
    OBVIOUS
<1>5. PICK v : v = master_input_byte(t, raw)
    OBVIOUS
<1>6. v = CASE IsSignalKey(t, b) -> queue_echo([t EXCEPT !.input = <<>>], 4)
            [] ~IsSignalKey(t, b) /\ ~t.canonical ->
                  IF Len(t.toSlave) < PTY_BUF
                  THEN queue_echo([t EXCEPT !.toSlave = Append(t.toSlave, x)], 1) ELSE t
            [] ~IsSignalKey(t, b) /\ t.canonical /\ b = "erase" ->
                  IF t.input = <<>> THEN t ELSE queue_echo([t EXCEPT !.input = Front(t.input)], 3)
            [] ~IsSignalKey(t, b) /\ t.canonical /\ b = "kill" ->
                  IF t.input = <<>> THEN t ELSE queue_echo([t EXCEPT !.input = <<>>], 4)
            [] ~IsSignalKey(t, b) /\ t.canonical /\ b = "eof" ->
                  IF t.input = <<>> THEN [t EXCEPT !.eof = TRUE] ELSE commit_canonical(t)
            [] OTHER -> IF b = "nl" THEN commit_canonical(typed) ELSE typed
    <2>1. IsLine(t)
        BY DEF LineOK, QueuesOK
    <2>2. QED
        BY <1>1, <1>2, <1>4, <1>5, <2>1 DEF master_input_byte, IsLine
<1>7. Keeps(t, t)
    BY DEF Keeps
<1>8. <<>> \in Seq({"a"}) /\ Len(<<>>) <= CANON_BUF
    BY CapsOK DEF Caps
<1>9. CASE IsSignalKey(t, b)
    <2>1. v = queue_echo([t EXCEPT !.input = <<>>], 4)
        BY <1>6, <1>9
    <2>2. QED
        BY <1>5, <1>8, <2>1, InputLine
<1>10. CASE ~IsSignalKey(t, b) /\ ~t.canonical
    <2>1. v = IF Len(t.toSlave) < PTY_BUF
              THEN queue_echo([t EXCEPT !.toSlave = Append(t.toSlave, x)], 1) ELSE t
        BY <1>6, <1>10
    <2>2. QED
        BY <1>3, <1>5, <1>7, <1>10, <2>1, RawKey
<1>11. CASE ~IsSignalKey(t, b) /\ t.canonical /\ b = "erase"
    <2>1. v = IF t.input = <<>> THEN t ELSE queue_echo([t EXCEPT !.input = Front(t.input)], 3)
        BY <1>6, <1>11
    <2>2. ASSUME t.input # <<>>
          PROVE  Front(t.input) \in Seq({"a"}) /\ Len(Front(t.input)) <= CANON_BUF
        <3>1. t.input \in Seq({"a"}) /\ Len(t.input) <= CANON_BUF /\ Len(t.input) \in Nat \ {0}
            BY <2>2, LenProperties, EmptySeq DEF LineOK, InputOK
        <3>2. PICK f : f = SubSeq(t.input, 1, Len(t.input) - 1)
            OBVIOUS
        <3>3. f \in Seq({"a"}) /\ Len(f) = Len(t.input) - 1
            BY <3>1, <3>2, SubSeqProperties
        <3>4. Front(t.input) = f
            BY <3>2 DEF Front
        <3>5. QED
            BY <3>1, <3>3, <3>4, CapsOK DEF Caps
    <2>3. QED
        BY <1>5, <1>7, <1>11, <2>1, <2>2, InputLine
<1>12. CASE ~IsSignalKey(t, b) /\ t.canonical /\ b = "kill"
    <2>1. v = IF t.input = <<>> THEN t ELSE queue_echo([t EXCEPT !.input = <<>>], 4)
        BY <1>6, <1>12
    <2>2. QED
        BY <1>5, <1>7, <1>8, <2>1, InputLine
<1>13. CASE ~IsSignalKey(t, b) /\ t.canonical /\ b = "eof"
    <2>1. v = IF t.input = <<>> THEN [t EXCEPT !.eof = TRUE] ELSE commit_canonical(t)
        BY <1>6, <1>13
    <2>2. Keeps(t, [t EXCEPT !.eof = TRUE])
        <3>1. PICK u : u = [t EXCEPT !.eof = TRUE]
            OBVIOUS
        <3>2. /\ IsLine(u) /\ u.toMaster = t.toMaster /\ u.open = t.open /\ u.toSlave = t.toSlave
              /\ u.records = t.records /\ u.canonical = t.canonical /\ u.input = t.input
              /\ u.slaveRefs = t.slaveRefs /\ u.masterRefs = t.masterRefs
            BY <3>1 DEF LineOK, QueuesOK, IsLine
        <3>3. QED
            BY <3>1, <3>2 DEF Keeps, LineOK, QueuesOK, InputOK
    <2>3. QED
        BY <1>5, <2>1, <2>2, CommitLine
<1>14. CASE ~IsSignalKey(t, b) /\ t.canonical /\ b \notin {"erase", "kill", "eof"}
    <2>1. v = IF b = "nl" THEN commit_canonical(typed) ELSE typed
        BY <1>6, <1>14
    <2>2. CASE Len(t.input) < CANON_BUF
        BY <1>3, <1>4, <1>5, <1>14, <2>1, <2>2, TypedKey
    <2>3. CASE ~(Len(t.input) < CANON_BUF)
        BY <1>4, <1>5, <1>7, <2>1, <2>3, CommitLine
    <2>4. QED
        BY <2>2, <2>3
<1>15. QED
    BY <1>9, <1>10, <1>11, <1>12, <1>13, <1>14

(* try_read_inner: an empty line, a record or a part of it, and raw bytes. *)
LEMMA ReadEmpty ==
    ASSUME NEW t, LineOK(t), t.canonical, t.records = <<>>, NEW count \in Nat \ {0}
    PROVE  /\ Keeps(t, try_read_inner(t, count).t)
           /\ try_read_inner(t, count).eof = (t.eof \/ t.masterRefs = 0)
<1>1. PICK u : u = [t EXCEPT !.eof = FALSE]
    OBVIOUS
<1>2. try_read_inner(t, count) = [t |-> u, n |-> 0, eof |-> t.eof \/ t.masterRefs = 0]
    BY <1>1 DEF try_read_inner
<1>3. /\ IsLine(u) /\ u.toMaster = t.toMaster /\ u.open = t.open /\ u.toSlave = t.toSlave
      /\ u.records = t.records /\ u.canonical = t.canonical /\ u.input = t.input
      /\ u.slaveRefs = t.slaveRefs /\ u.masterRefs = t.masterRefs
    BY <1>1 DEF LineOK, QueuesOK, IsLine
<1>4. Keeps(t, u)
    BY <1>3 DEF Keeps, LineOK, QueuesOK, InputOK
<1>5. QED
    BY <1>2, <1>4

LEMMA ReadCooked ==
    ASSUME NEW t, LineOK(t), t.canonical, t.records # <<>>, NEW count \in Nat \ {0}
    PROVE  /\ Keeps(t, try_read_inner(t, count).t)
           /\ try_read_inner(t, count).n # 0
<1>1. /\ t.records \in Seq(Nat \ {0}) /\ t.toSlave \in Seq(Letters) /\ Queued(t.records) <= Len(t.toSlave)
      /\ QueueOK(t.toSlave, t.records, t.canonical)
    BY DEF LineOK, QueuesOK, QueueOK
<1>2. PICK c : c = t.records[1]
    OBVIOUS
<1>3. c \in Nat \ {0} /\ c <= Len(t.toSlave) /\ Len(t.toSlave) \in Nat
    <2>1. Len(t.records) \in Nat \ {0} /\ Len(t.toSlave) \in Nat
        BY <1>1, LenProperties, EmptySeq
    <2>2. 1 \in 1..Len(t.records)
        BY <2>1
    <2>3. c \in Nat \ {0}
        BY <1>1, <1>2, <2>2, ElementOfSeq
    <2>4. c <= Queued(t.records) /\ Queued(t.records) \in Nat
        BY <1>1, <1>2, FirstQueued, RecordsAreNat
    <2>5. QED
        BY <1>1, <2>1, <2>3, <2>4
<1>4. PICK n : n = AtMost(AtMost(count, c), Len(t.toSlave))
    OBVIOUS
<1>5. n \in Nat \ {0} /\ n <= c
    BY <1>3, <1>4 DEF AtMost
<1>6. PICK q : q = SubSeq(t.toSlave, n + 1, Len(t.toSlave))
    OBVIOUS
<1>7. PICK r : r = IF n = c THEN Tail(t.records) ELSE [t.records EXCEPT ![1] = t.records[1] - n]
    OBVIOUS
<1>8. QueueOK(q, r, t.canonical)
    <2>1. CASE n = c
        BY <1>1, <1>2, <1>6, <1>7, <2>1, ReadRecord
    <2>2. CASE n # c
        <3>1. n < t.records[1]
            BY <1>2, <1>3, <1>5, <2>2
        <3>2. QED
            BY <1>1, <1>5, <1>6, <1>7, <2>2, <3>1, ReadPart
    <2>3. QED
        BY <2>1, <2>2
<1>9. PICK u : u = [t EXCEPT !.toSlave = q, !.records = r]
    OBVIOUS
<1>10. try_read_inner(t, count) = [t |-> u, n |-> n, eof |-> FALSE]
    <2>1. Head(t.records) = c
        BY <1>1, <1>2, HeadTailProperties
    <2>2. PICK record : record = IF t.records = <<>> THEN 0 ELSE Head(t.records)
        OBVIOUS
    <2>3. record = c
        BY <2>1, <2>2
    <2>4. PICK k : k = AtMost(AtMost(count, IF t.canonical THEN record ELSE Len(t.toSlave)), Len(t.toSlave))
        OBVIOUS
    <2>5. k = n
        BY <1>4, <2>3, <2>4
    <2>6. PICK rest : rest = SubSeq(t.toSlave, k + 1, Len(t.toSlave))
        OBVIOUS
    <2>7. rest = q
        BY <1>6, <2>5, <2>6
    <2>8. try_read_inner(t, count) =
            [t |-> [t EXCEPT !.toSlave = rest,
                             !.records = IF k = record THEN Tail(@) ELSE [@ EXCEPT ![1] = record - k]],
             n |-> k, eof |-> FALSE]
        BY <2>2, <2>4, <2>6, Zenon DEF try_read_inner
    <2>9. [t EXCEPT !.toSlave = q, !.records = IF n = c THEN Tail(@) ELSE [@ EXCEPT ![1] = c - n]] = u
        <3>1. IsLine(t)
            BY DEF LineOK, QueuesOK
        <3>2. CASE n = c
            BY <1>7, <1>9, <3>1, <3>2 DEF IsLine
        <3>3. CASE n # c
            BY <1>2, <1>7, <1>9, <3>1, <3>3 DEF IsLine
        <3>4. QED
            BY <3>2, <3>3
    <2>10. QED
        BY <2>3, <2>5, <2>7, <2>8, <2>9
<1>11. /\ IsLine(u) /\ u.toMaster = t.toMaster /\ u.open = t.open /\ u.toSlave = q
       /\ u.records = r /\ u.canonical = t.canonical /\ u.input = t.input
       /\ u.slaveRefs = t.slaveRefs /\ u.masterRefs = t.masterRefs
    BY <1>9 DEF LineOK, QueuesOK, IsLine
<1>12. Keeps(t, u)
    BY <1>8, <1>11 DEF Keeps, LineOK, QueuesOK, InputOK
<1>13. QED
    BY <1>5, <1>10, <1>12

LEMMA ReadRaw ==
    ASSUME NEW t, LineOK(t), ~t.canonical, NEW count \in Nat \ {0}
    PROVE  /\ Keeps(t, try_read_inner(t, count).t)
           /\ t.toSlave # <<>> => try_read_inner(t, count).n # 0
           /\ try_read_inner(t, count).eof = (t.masterRefs = 0)
<1>1. t.toSlave \in Seq(Letters) /\ Len(t.toSlave) <= PTY_BUF /\ Len(t.toSlave) \in Nat
    BY LenProperties DEF LineOK, QueuesOK, QueueOK
<1>2. PICK n : n = AtMost(AtMost(count, Len(t.toSlave)), Len(t.toSlave))
    OBVIOUS
<1>3. n \in Nat /\ n <= Len(t.toSlave) /\ (Len(t.toSlave) # 0 => n # 0)
    BY <1>1, <1>2 DEF AtMost
<1>4. PICK q : q = SubSeq(t.toSlave, n + 1, Len(t.toSlave))
    OBVIOUS
<1>5. q \in Seq(Letters) /\ Len(q) <= PTY_BUF
    <2>1. q \in Seq(Letters) /\ Len(q) = Len(t.toSlave) - n
        BY <1>1, <1>3, <1>4, SubSeqProperties
    <2>2. QED
        BY <1>1, <1>3, <2>1, CapsOK DEF Caps
<1>6. PICK u : u = [t EXCEPT !.toSlave = q]
    OBVIOUS
<1>7. try_read_inner(t, count) = [t |-> u, n |-> n, eof |-> t.masterRefs = 0]
    BY <1>2, <1>4, <1>6 DEF try_read_inner
<1>8. /\ IsLine(u) /\ u.toMaster = t.toMaster /\ u.open = t.open /\ u.toSlave = q
      /\ u.records = t.records /\ u.canonical = t.canonical /\ u.input = t.input
      /\ u.slaveRefs = t.slaveRefs /\ u.masterRefs = t.masterRefs
    BY <1>6 DEF LineOK, QueuesOK, IsLine
<1>9. QueueOK(q, <<>>, t.canonical)
    BY <1>5, NoRecords
<1>10. Keeps(t, u)
    BY <1>8, <1>9 DEF Keeps, LineOK, QueuesOK, InputOK
<1>11. t.toSlave # <<>> => n # 0
    BY <1>1, <1>3, EmptySeq
<1>12. QED
    BY <1>7, <1>10, <1>11

LEMMA ReadKeeps ==
    ASSUME NEW t, LineOK(t), NEW count \in Nat \ {0}
    PROVE  Keeps(t, try_read_inner(t, count).t)
    BY ReadEmpty, ReadCooked, ReadRaw

LEMMA ReadableReads ==
    ASSUME NEW t, LineOK(t), readable(t), NEW count \in Nat \ {0}
    PROVE  ~ReadBlocks(t, count)
<1>1. CASE t.canonical /\ t.records = <<>>
    <2>1. t.eof \/ t.masterRefs = 0
        BY <1>1 DEF readable
    <2>2. try_read_inner(t, count).eof
        BY <1>1, <2>1, ReadEmpty
    <2>3. QED
        BY <2>2 DEF ReadBlocks
<1>2. CASE t.canonical /\ t.records # <<>>
    <2>1. try_read_inner(t, count).n # 0
        BY <1>2, ReadCooked
    <2>2. QED
        BY <2>1 DEF ReadBlocks
<1>3. CASE ~t.canonical
    <2>1. t.masterRefs = 0 \/ t.toSlave # <<>>
        BY <1>3 DEF readable
    <2>2. try_read_inner(t, count).n # 0 \/ try_read_inner(t, count).eof
        BY <1>3, <2>1, ReadRaw
    <2>3. QED
        BY <2>2 DEF ReadBlocks
<1>4. QED
    BY <1>1, <1>2, <1>3

(* TCSETS.                                                                 *)
LEMMA ModeKeeps ==
    ASSUME NEW t, LineOK(t), NEW cooked \in BOOLEAN, NEW now
    PROVE  Keeps(t, set_termios(t, [t EXCEPT !.canonical = cooked, !.echo = cooked, !.isig = cooked,
                                             !.immediate = now]))
<1>1. PICK u : u = [t EXCEPT !.canonical = cooked, !.echo = cooked, !.isig = cooked, !.immediate = now]
    OBVIOUS
<1>2. /\ IsLine(u) /\ u.toMaster = t.toMaster /\ u.open = t.open /\ u.toSlave = t.toSlave
      /\ u.records = t.records /\ u.canonical = cooked /\ u.input = t.input
      /\ u.slaveRefs = t.slaveRefs /\ u.masterRefs = t.masterRefs
    BY <1>1 DEF LineOK, QueuesOK, IsLine
<1>3. t.toSlave \in Seq(Letters) /\ Len(t.toSlave) <= PTY_BUF /\ Len(t.toSlave) \in Nat
    BY LenProperties DEF LineOK, QueuesOK, QueueOK
<1>4. CASE t.canonical /\ ~cooked
    <2>1. PICK f : f = Fitting(t.toSlave, t.input)
        OBVIOUS
    <2>2. t.input \in Seq(Letters)
        BY LettersOfInput DEF LineOK, InputOK
    <2>3. f \in Seq(Letters) /\ Len(t.toSlave) + Len(f) <= PTY_BUF
        BY <1>3, <2>1, <2>2, FittingFacts
    <2>4. PICK q : q = t.toSlave \o f
        OBVIOUS
    <2>5. q \in Seq(Letters) /\ Len(q) <= PTY_BUF
        BY <1>3, <2>3, <2>4, ConcatProperties
    <2>6. PICK v : v = [u EXCEPT !.records = <<>>, !.eof = FALSE, !.input = <<>>, !.toSlave = q]
        OBVIOUS
    <2>7. set_termios(t, u) = v
        BY <1>2, <1>4, <2>1, <2>4, <2>6 DEF set_termios, IsLine
    <2>8. /\ IsLine(v) /\ v.toMaster = t.toMaster /\ v.open = t.open /\ v.toSlave = q
          /\ v.records = <<>> /\ v.canonical = cooked /\ v.input = <<>>
          /\ v.slaveRefs = t.slaveRefs /\ v.masterRefs = t.masterRefs
        BY <1>2, <2>6 DEF IsLine
    <2>9. QueueOK(q, <<>>, cooked)
        BY <2>5, NoRecords
    <2>10. <<>> \in Seq({"a"}) /\ Len(<<>>) <= CANON_BUF
        BY CapsOK DEF Caps
    <2>11. Keeps(t, v)
        BY <2>8, <2>9, <2>10 DEF Keeps, LineOK, QueuesOK, InputOK
    <2>12. QED
        BY <1>1, <2>7, <2>11
<1>5. CASE ~(t.canonical /\ ~cooked)
    <2>1. set_termios(t, u) = u
        BY <1>2, <1>5 DEF set_termios
    <2>2. QueueOK(t.toSlave, t.records, cooked) /\ (~cooked => t.records = <<>>)
        <3>1. CASE t.canonical
            BY <1>5, <3>1 DEF LineOK, QueuesOK, QueueOK
        <3>2. CASE ~t.canonical
            BY <1>3, <3>2, NoRecords DEF LineOK, QueuesOK
        <3>3. QED
            BY <3>1, <3>2
    <2>3. ~cooked => t.input = <<>>
        BY <1>5 DEF LineOK, InputOK
    <2>4. Keeps(t, u)
        BY <1>2, <2>2, <2>3 DEF Keeps, LineOK, QueuesOK, InputOK
    <2>5. QED
        BY <1>1, <2>1, <2>4
<1>6. QED
    BY <1>4, <1>5

(* TCFLSH.                                                                 *)
LEMMA FlushKeeps ==
    ASSUME NEW t, LineOK(t)
    PROVE  Keeps(t, [t EXCEPT !.toSlave = <<>>, !.input = <<>>, !.records = <<>>, !.eof = FALSE])
<1>1. PICK u : u = [t EXCEPT !.toSlave = <<>>, !.input = <<>>, !.records = <<>>, !.eof = FALSE]
    OBVIOUS
<1>2. /\ IsLine(u) /\ u.toMaster = t.toMaster /\ u.open = t.open /\ u.toSlave = <<>>
      /\ u.records = <<>> /\ u.canonical = t.canonical /\ u.input = <<>>
      /\ u.slaveRefs = t.slaveRefs /\ u.masterRefs = t.masterRefs
    BY <1>1 DEF LineOK, QueuesOK, IsLine
<1>3. /\ <<>> \in Seq({"a"}) /\ Len(<<>>) <= CANON_BUF
      /\ <<>> \in Seq(Letters) /\ Len(<<>>) <= PTY_BUF
    BY CapsOK DEF Caps
<1>4. QueueOK(<<>>, <<>>, t.canonical)
    BY <1>3, NoRecords
<1>5. QED
    BY <1>1, <1>2, <1>3, <1>4 DEF Keeps, LineOK, QueuesOK, InputOK

(* The queue to the master and the counts of the two sides.                *)
LEMMA OutputKeeps ==
    ASSUME NEW t, LineOK(t), NEW m \in 0..PTY_BUF
    PROVE  Keeps(t, [t EXCEPT !.toMaster = m])
<1>1. PICK u : u = [t EXCEPT !.toMaster = m]
    OBVIOUS
<1>2. /\ IsLine(u) /\ u.toMaster = m /\ u.open = t.open /\ u.toSlave = t.toSlave
      /\ u.records = t.records /\ u.canonical = t.canonical /\ u.input = t.input
      /\ u.slaveRefs = t.slaveRefs /\ u.masterRefs = t.masterRefs
    BY <1>1 DEF LineOK, QueuesOK, IsLine
<1>3. QED
    BY <1>1, <1>2 DEF Keeps, LineOK, QueuesOK, InputOK

LEMMA HangupKeeps ==
    ASSUME NEW t, LineOK(t)
    PROVE  Keeps(t, hangup(t))
<1>1. PICK c : c = commit_canonical(t)
    OBVIOUS
<1>2. Keeps(t, c)
    BY <1>1, CommitLine
<1>3. PICK u : u = [c EXCEPT !.masterRefs = 0]
    OBVIOUS
<1>4. /\ IsLine(u) /\ u.toMaster = c.toMaster /\ u.open = c.open /\ u.toSlave = c.toSlave
      /\ u.records = c.records /\ u.canonical = c.canonical /\ u.input = c.input
      /\ u.slaveRefs = c.slaveRefs /\ u.masterRefs = 0
    BY <1>2, <1>3 DEF Keeps, LineOK, QueuesOK, IsLine
<1>5. Keeps(t, u)
    BY <1>2, <1>4 DEF Keeps, LineOK, QueuesOK, InputOK
<1>6. QED
    BY <1>1, <1>3, <1>5 DEF hangup

LEMMA CloseKeeps ==
    ASSUME NEW t, LineOK(t), CloseSlave(t) # NoPty
    PROVE  LineOK(CloseSlave(t)) /\ CloseSlave(t).slaveRefs = t.slaveRefs - 1
<1>1. PICK u : u = [t EXCEPT !.slaveRefs = t.slaveRefs - 1]
    OBVIOUS
<1>2. CloseSlave(t) = u
    BY <1>1 DEF CloseSlave, LineOK, QueuesOK, IsLine
<1>3. /\ IsLine(u) /\ u.toMaster = t.toMaster /\ u.open = t.open /\ u.toSlave = t.toSlave
      /\ u.records = t.records /\ u.canonical = t.canonical /\ u.input = t.input
      /\ u.slaveRefs = t.slaveRefs - 1 /\ u.masterRefs = t.masterRefs
    BY <1>1 DEF LineOK, QueuesOK, IsLine
<1>4. QED
    BY <1>2, <1>3 DEF LineOK, QueuesOK, InputOK

-----------------------------------------------------------------------------
(* What every step keeps: the line is sound and its slave descriptors are  *)
(* the ones of the living processes.                                       *)
LineIs(t, dead) == t = NoPty \/ (LineOK(t) /\ t.slaveRefs = Cardinality(TtyProcs \ dead))

TtyInv ==
    /\ fg \in TtyProcs
    /\ ttyCall \in [TtyProcs -> {"none", "read", "write"}]
    /\ LineIs(pty, ttyDead)

LEMMA TtyInitInv == TtyInit => TtyInv
<1>1. SUFFICES ASSUME TtyInit PROVE TtyInv
    OBVIOUS
<1>2. TtyProcs \ {} = TtyProcs
    OBVIOUS
<1>3. PICK c : c = Cardinality(TtyProcs)
    OBVIOUS
<1>4. pty = [open |-> TRUE, toMaster |-> 0, toSlave |-> <<>>, input |-> <<>>,
              records |-> <<>>, eof |-> FALSE, canonical |-> TRUE, echo |-> TRUE,
              isig |-> TRUE, immediate |-> FALSE,
              masterRefs |-> 1, slaveRefs |-> c]
    BY <1>1, <1>3 DEF TtyInit
<1>5. PICK t : t = pty
    OBVIOUS
<1>6. /\ IsLine(t) /\ t.open /\ t.toMaster = 0 /\ t.toSlave = <<>> /\ t.input = <<>>
      /\ t.records = <<>> /\ t.canonical /\ t.slaveRefs = c /\ t.masterRefs = 1
    BY <1>4, <1>5 DEF IsLine
<1>7. /\ <<>> \in Seq({"a"}) /\ Len(<<>>) <= CANON_BUF
      /\ <<>> \in Seq(Letters) /\ Len(<<>>) <= PTY_BUF
    BY CapsOK DEF Caps
<1>8. QueueOK(<<>>, <<>>, t.canonical)
    BY <1>7, NoRecords
<1>9. LineOK(t)
    <2>1. 0 \in 0..PTY_BUF
        BY CapsOK DEF Caps
    <2>2. QueuesOK(t)
        BY <1>6, <1>8, <2>1 DEF QueuesOK
    <2>3. InputOK(t)
        BY <1>6, <1>7 DEF InputOK
    <2>4. QED
        BY <2>2, <2>3 DEF LineOK
<1>10. fg \in TtyProcs /\ ttyDead = {} /\ ttyCall \in [TtyProcs -> {"none", "read", "write"}]
    BY <1>1 DEF TtyInit
<1>11. LineIs(pty, {})
    BY <1>2, <1>3, <1>5, <1>6, <1>9 DEF LineIs
<1>12. QED
    BY <1>10, <1>11 DEF TtyInv

LEMMA TtyInvSound == TtyInv => TtyTypeOK /\ ReadableNeverBlocks /\ RecordsAreQueued /\ RecordIsOneLine
<1>1. SUFFICES ASSUME TtyInv PROVE TtyTypeOK /\ ReadableNeverBlocks /\ RecordsAreQueued /\ RecordIsOneLine
    OBVIOUS
<1>2. ASSUME pty.open
      PROVE  LineOK(pty) /\ pty.slaveRefs = Cardinality(TtyProcs \ ttyDead)
    BY <1>1, <1>2 DEF TtyInv, LineIs, NoPty
<1>3. TtyTypeOK
    <2>1. SUFFICES ASSUME pty.open
                   PROVE  /\ pty.toMaster \in 0..PTY_BUF
                          /\ Len(pty.toSlave) \in 0..PTY_BUF /\ Len(pty.input) \in 0..CANON_BUF
        BY <1>1, <1>2 DEF TtyTypeOK, TtyInv
    <2>2. LineOK(pty)
        BY <1>2, <2>1
    <2>3. pty.toSlave \in Seq(Letters) /\ pty.input \in Seq({"a"})
        BY <2>2 DEF LineOK, QueuesOK, QueueOK, InputOK
    <2>4. Len(pty.toSlave) \in Nat /\ Len(pty.input) \in Nat
        BY <2>3, LenProperties
    <2>5. QED
        BY <2>2, <2>4, CapsOK DEF LineOK, QueuesOK, QueueOK, InputOK, Caps
<1>4. ReadableNeverBlocks
    <2>1. SUFFICES ASSUME pty.open, readable(pty), NEW count \in 1..MaxRead PROVE ~ReadBlocks(pty, count)
        BY DEF ReadableNeverBlocks
    <2>2. count \in Nat \ {0}
        BY CapsOK DEF Caps
    <2>3. QED
        BY <1>2, <2>1, <2>2, ReadableReads
<1>5. RecordsAreQueued
    <2>1. SUFFICES ASSUME pty.open
                   PROVE  /\ Queued(pty.records) <= Len(pty.toSlave)
                          /\ \A i \in DOMAIN pty.records : pty.records[i] > 0
        BY DEF RecordsAreQueued
    <2>2. QueueOK(pty.toSlave, pty.records, pty.canonical)
        BY <1>2, <2>1 DEF LineOK, QueuesOK
    <2>3. \A i \in 1..Len(pty.records) : pty.records[i] \in Nat \ {0}
        BY <2>2, ElementOfSeq DEF QueueOK
    <2>4. QED
        BY <2>2, <2>3 DEF QueueOK
<1>6. RecordIsOneLine
    <2>1. SUFFICES ASSUME pty.open, pty.canonical, Queued(pty.records) = Len(pty.toSlave),
                          NEW i \in DOMAIN pty.records,
                          NEW k \in (QueuedUpTo(pty.records)[i - 1] + 1)
                                      ..(QueuedUpTo(pty.records)[i - 1] + 1 + pty.records[i] - 2)
                   PROVE  pty.toSlave[k] # "nl"
        BY DEF RecordIsOneLine
    <2>2. QueueOK(pty.toSlave, pty.records, pty.canonical)
        BY <1>2, <2>1 DEF LineOK, QueuesOK
    <2>3. OneLine(pty.toSlave, pty.records) /\ pty.records \in Seq(Nat)
        BY <2>1, <2>2, RecordsAreNat DEF QueueOK
    <2>4. i \in 1..Len(pty.records) /\ Len(pty.records) \in Nat
        BY <2>1, <2>3, LenProperties
    <2>5. PICK a \in Nat : a = QueuedUpTo(pty.records)[i - 1]
        <3>1. i - 1 \in 0..Len(pty.records)
            BY <2>4
        <3>2. QED
            BY <2>3, <3>1, QueuedGrows
    <2>6. PICK b \in Nat : b = pty.records[i]
        BY <2>3, <2>4, ElementOfSeq
    <2>7. k \in (a + 1)..(a + b - 1)
        BY <2>1, <2>5, <2>6
    <2>8. QED
        BY <2>3, <2>4, <2>5, <2>6, <2>7 DEF OneLine
<1>7. QED
    BY <1>3, <1>4, <1>5, <1>6

(* A process dies and its descriptor is closed.                            *)
LEMMA ExitKeeps ==
    ASSUME TtyInv, NEW p \in TtyProcs, p \notin ttyDead, ExitTty(p)
    PROVE  TtyInv'
<1>1. fg' \in TtyProcs /\ ttyCall' \in [TtyProcs -> {"none", "read", "write"}] /\ ttyDead' = ttyDead \cup {p}
    BY DEF ExitTty, TtyInv
<1>2. LineIs(pty', ttyDead')
    <2>1. CASE ~pty.open
        <3>1. pty = NoPty
            BY <2>1 DEF TtyInv, LineIs, LineOK, QueuesOK
        <3>2. QED
            BY <2>1, <3>1 DEF ExitTty, LineIs
    <2>2. CASE pty.open
        <3>1. LineOK(pty) /\ pty.slaveRefs = Cardinality(TtyProcs \ ttyDead)
            BY <2>2 DEF TtyInv, LineIs, NoPty
        <3>2. pty' = CloseSlave(pty)
            BY <2>2 DEF ExitTty
        <3>3. Cardinality(TtyProcs \ (ttyDead \cup {p})) = Cardinality(TtyProcs \ ttyDead) - 1
            <4>1. IsFiniteSet(TtyProcs \ ttyDead)
                BY TtyAssumption, FS_Subset
            <4>2. (TtyProcs \ ttyDead) \ {p} = TtyProcs \ (ttyDead \cup {p}) /\ p \in TtyProcs \ ttyDead
                OBVIOUS
            <4>3. QED
                BY <4>1, <4>2, FS_RemoveElement
        <3>4. QED
            BY <1>1, <3>1, <3>2, <3>3, CloseKeeps DEF LineIs
    <2>3. QED
        BY <2>1, <2>2
<1>3. QED
    BY <1>1, <1>2 DEF TtyInv

(* A step of the line itself.                                              *)
LEMMA LineStep ==
    ASSUME TtyInv, pty.open, Keeps(pty, pty'), UNCHANGED ttyDead,
           fg' \in TtyProcs, ttyCall' \in [TtyProcs -> {"none", "read", "write"}]
    PROVE  TtyInv'
<1>1. LineOK(pty) /\ pty.slaveRefs = Cardinality(TtyProcs \ ttyDead)
    BY DEF TtyInv, LineIs, NoPty
<1>2. LineIs(pty', ttyDead')
    BY <1>1 DEF LineIs, Keeps
<1>3. QED
    BY <1>2 DEF TtyInv

LEMMA LineOpen ==
    ASSUME TtyInv, pty.open
    PROVE  LineOK(pty)
    BY DEF TtyInv, LineIs, NoPty

LEMMA LineSame ==
    ASSUME TtyInv, UNCHANGED <<pty, ttyDead>>,
           fg' \in TtyProcs, ttyCall' \in [TtyProcs -> {"none", "read", "write"}]
    PROVE  TtyInv'
    BY DEF TtyInv

LEMMA TtyNextInv == TtyInv /\ [TtyNext]_ttyVars => TtyInv'
<1>1. SUFFICES ASSUME TtyInv, [TtyNext]_ttyVars PROVE TtyInv'
    OBVIOUS
<1> USE <1>1
<1>2. fg \in TtyProcs /\ ttyCall \in [TtyProcs -> {"none", "read", "write"}]
    BY DEF TtyInv
<1>3. CASE UNCHANGED ttyVars
    BY <1>2, <1>3, LineSame DEF ttyVars
<1>4. ASSUME NEW b \in Keys, write_master(b) PROVE TtyInv'
    BY <1>2, <1>4, LineOpen, LineStep, KeyKeeps DEF write_master
<1>5. CASE read_master
    <2>1. 0 \in 0..PTY_BUF
        BY CapsOK DEF Caps
    <2>2. Keeps(pty, pty')
        BY <1>5, <2>1, LineOpen, OutputKeeps DEF read_master
    <2>3. QED
        BY <1>2, <1>5, <2>2, LineStep DEF read_master
<1>6. CASE close_master
    <2>1. CASE pty.slaveRefs = 0
        BY <1>2, <1>6, <2>1 DEF close_master, TtyInv, LineIs
    <2>2. CASE pty.slaveRefs # 0
        <3>1. Keeps(pty, pty')
            BY <1>6, <2>2, LineOpen, HangupKeeps DEF close_master
        <3>2. QED
            BY <1>2, <1>6, <3>1, LineStep DEF close_master
    <2>3. QED
        BY <2>1, <2>2
<1>7. ASSUME NEW p \in TtyProcs, NEW count \in 1..MaxRead, read_slave(p, count) PROVE TtyInv'
    <2>1. ttyCall' \in [TtyProcs -> {"none", "read", "write"}]
        BY <1>2, <1>7 DEF read_slave, ReadForeground
    <2>2. CASE Background(p)
        BY <1>2, <1>7, <2>1, <2>2, LineSame DEF read_slave
    <2>3. CASE ~Background(p)
        <3>1. pty' = try_read_inner(pty, count).t /\ pty.open
            BY <1>7, <2>3 DEF read_slave, ReadForeground, CanCall
        <3>2. count \in Nat \ {0}
            BY CapsOK DEF Caps
        <3>3. Keeps(pty, pty')
            BY <3>1, <3>2, LineOpen, ReadKeeps
        <3>4. QED
            BY <1>2, <1>7, <2>1, <3>1, <3>3, LineStep DEF read_slave
    <2>4. QED
        BY <2>2, <2>3
<1>8. ASSUME NEW p \in TtyProcs, NEW width \in {1, 2}, write_slave(p, width) PROVE TtyInv'
    <2>1. ttyCall' \in [TtyProcs -> {"none", "read", "write"}]
        BY <1>2, <1>8 DEF write_slave
    <2>2. CASE pty' = pty
        BY <1>2, <1>8, <2>1, <2>2, LineSame DEF write_slave
    <2>3. CASE pty' # pty
        <3>1. /\ pty.open /\ ~(pty.masterRefs > 0 /\ pty.toMaster + width > PTY_BUF)
              /\ pty.masterRefs # 0 /\ pty' = [pty EXCEPT !.toMaster = @ + width]
            BY <1>8, <2>3 DEF write_slave, CanCall
        <3>2. LineOK(pty) /\ pty.masterRefs \in {0, 1}
            BY <3>1, LineOpen DEF LineOK, QueuesOK
        <3>3. pty.toMaster + width \in 0..PTY_BUF
            BY <3>1, <3>2, CapsOK DEF LineOK, QueuesOK, Caps
        <3>4. PICK m : m = pty.toMaster + width
            OBVIOUS
        <3>5. pty' = [pty EXCEPT !.toMaster = m]
            BY <3>1, <3>2, <3>4 DEF LineOK, QueuesOK, IsLine
        <3>6. Keeps(pty, pty')
            BY <3>2, <3>3, <3>4, <3>5, OutputKeeps
        <3>7. QED
            BY <1>2, <1>8, <2>1, <3>1, <3>6, LineStep DEF write_slave
    <2>4. QED
        BY <2>2, <2>3
<1>9. ASSUME NEW p \in TtyProcs, tcsets(p) PROVE TtyInv'
    <2>1. PICK cooked \in BOOLEAN, immediate \in BOOLEAN :
            SetMode(p, [pty EXCEPT !.canonical = cooked, !.echo = cooked, !.isig = cooked,
                                   !.immediate = ~cooked /\ immediate])
        BY <1>9 DEF tcsets
    <2>2. Keeps(pty, pty')
        BY <1>9, <2>1, LineOpen, ModeKeeps DEF SetMode, tcsets
    <2>3. QED
        BY <1>2, <1>9, <2>1, <2>2, LineStep DEF SetMode, tcsets
<1>10. ASSUME NEW p \in TtyProcs, flush_input(p) PROVE TtyInv'
    <2>1. Keeps(pty, pty') /\ pty.open
        BY <1>10, LineOpen, FlushKeeps DEF flush_input, CanCall
    <2>2. QED
        BY <1>2, <1>10, <2>1, LineStep DEF flush_input
<1>11. ASSUME NEW p \in TtyProcs, NEW g \in TtyProcs, set_foreground_pty(p, g) PROVE TtyInv'
    BY <1>2, <1>11, LineSame DEF set_foreground_pty
<1>12. ASSUME NEW p \in TtyProcs, DeliverTty(p) PROVE TtyInv'
    BY <1>12, ExitKeeps DEF DeliverTty
<1>13. ASSUME NEW p \in TtyProcs, UserExit(p) PROVE TtyInv'
    BY <1>13, ExitKeeps DEF UserExit, CanCall
<1>14. ASSUME NEW p \in TtyProcs, ContinueTty(p) PROVE TtyInv'
    BY <1>2, <1>14, LineSame DEF ContinueTty
<1>15. QED
    BY <1>3, <1>4, <1>5, <1>6, <1>7, <1>8, <1>9, <1>10, <1>11, <1>12, <1>13, <1>14 DEF TtyNext

-----------------------------------------------------------------------------
TerminalsInv == (part = "tty" => TtyInv) /\ (part = "job" => JobInv)

(* Terminals of MCIpc's composition, for every value of the constants: the *)
(* queues of a pty (tty.rs) keep within their capacities whatever is typed *)
(* and whichever modes are switched, its records describe queued bytes and *)
(* never join two lines, a slave that poll reports as readable never       *)
(* blocks a read, and every pty has a terminal of its own and exactly the  *)
(* references its descriptions hold (syscalls/handler.rs).                 *)
THEOREM TerminalsAreSound == MCSpec => []TerminalsSound
<1>1. MCInit => TerminalsInv
    <2>1. MCInit => TtyInit /\ JobInit
        BY Zenon DEF MCInit
    <2>2. QED
        BY <2>1, TtyInitInv, JobInitInv, Zenon DEF TerminalsInv
<1>2. ASSUME TerminalsInv, [MCNext]_mcVars
      PROVE  TerminalsInv'
    <2>1. part' = part
        BY <1>2 DEF MCNext, mcVars
    <2>2. CASE part = "tty"
        BY <1>2, <2>1, <2>2, TtyNextInv DEF MCNext, mcVars, ttyVars, TerminalsInv
    <2>3. CASE part = "job"
        BY <1>2, <2>1, <2>3, JobNextInv DEF MCNext, mcVars, jobVars, TerminalsInv
    <2>4. QED
        BY <2>1, <2>2, <2>3 DEF TerminalsInv
<1>3. TerminalsInv => TerminalsSound
    BY TtyInvSound, JobInvSound DEF TerminalsInv, TerminalsSound
<1>4. QED
    BY <1>1, <1>2, <1>3, PTL DEF MCSpec

(***************************************************************************)
(* The shell's jobs.                                                       *)
(***************************************************************************)

(* A sequence without its i-th element.                                    *)
LEMMA RemoveAtFacts ==
    ASSUME NEW S, NEW s \in Seq(S), NEW i \in 1..Len(s)
    PROVE  /\ RemoveAt(s, i) \in Seq(S) /\ Len(RemoveAt(s, i)) = Len(s) - 1
           /\ \A j \in 1..(i - 1) : RemoveAt(s, i)[j] = s[j]
           /\ \A j \in i..(Len(s) - 1) : RemoveAt(s, i)[j] = s[j + 1]
<1>1. Len(s) \in Nat /\ i \in Nat \ {0} /\ i <= Len(s)
    BY LenProperties
<1>2. PICK a : a = SubSeq(s, 1, i - 1)
    OBVIOUS
<1>3. PICK b : b = SubSeq(s, i + 1, Len(s))
    OBVIOUS
<1>4. a \in Seq(S) /\ Len(a) = i - 1 /\ \A j \in 1..(i - 1) : a[j] = s[j]
    BY <1>1, <1>2
<1>5. b \in Seq(S) /\ Len(b) = Len(s) - i /\ \A j \in 1..(Len(s) - i) : b[j] = s[i + j]
    BY <1>1, <1>3
<1>6. PICK r : r = a \o b
    OBVIOUS
<1>7. r \in Seq(S) /\ Len(r) = Len(s) - 1
    <2>1. r \in Seq(S) /\ Len(r) = Len(a) + Len(b)
        BY <1>4, <1>5, <1>6, ConcatProperties, Zenon
    <2>2. QED
        BY <1>1, <1>4, <1>5, <2>1
<1>8. \A j \in 1..(i - 1) : r[j] = s[j]
    BY <1>1, <1>4, <1>5, <1>6
<1>9. ASSUME NEW j \in i..(Len(s) - 1)
      PROVE  r[j] = s[j + 1]
    <2>1. PICK m : m = j - (i - 1)
        OBVIOUS
    <2>2. m \in 1..(Len(s) - i) /\ i + m = j + 1 /\ j > Len(a) /\ j <= Len(a) + Len(b) /\ m = j - Len(a)
        BY <1>1, <1>4, <1>5, <2>1
    <2>3. r[j] = b[m]
        BY <1>1, <1>4, <1>5, <1>6, <2>2
    <2>4. QED
        BY <1>5, <2>2, <2>3
<1>10. RemoveAt(s, i) = r
    BY <1>2, <1>3, <1>6 DEF RemoveAt
<1>11. QED
    BY <1>7, <1>8, <1>9, <1>10

(* Every other element stays.                                              *)
LEMMA RemoveAtKeeps ==
    ASSUME NEW S, NEW s \in Seq(S), NEW i \in 1..Len(s)
    PROVE  /\ \A j \in 1..Len(s) : j # i => \E k \in 1..(Len(s) - 1) : RemoveAt(s, i)[k] = s[j]
           /\ \A k \in 1..(Len(s) - 1) : \E j \in 1..Len(s) : j # i /\ RemoveAt(s, i)[k] = s[j]
<1>1. Len(s) \in Nat /\ i \in Nat \ {0} /\ i <= Len(s)
    BY LenProperties
<1>2. PICK r : r = RemoveAt(s, i)
    OBVIOUS
<1>3. /\ \A j \in 1..(i - 1) : r[j] = s[j]
      /\ \A j \in i..(Len(s) - 1) : r[j] = s[j + 1]
    BY <1>2, RemoveAtFacts
<1>4. ASSUME NEW j \in 1..Len(s), j # i
      PROVE  \E k \in 1..(Len(s) - 1) : r[k] = s[j]
    <2>1. CASE j < i
        <3>1. j \in 1..(i - 1) /\ j \in 1..(Len(s) - 1)
            BY <1>1, <2>1
        <3>2. QED
            BY <1>3, <3>1
    <2>2. CASE j > i
        <3>1. j - 1 \in i..(Len(s) - 1) /\ j - 1 \in 1..(Len(s) - 1) /\ (j - 1) + 1 = j
            BY <1>1, <2>2
        <3>2. QED
            BY <1>3, <3>1
    <2>3. QED
        BY <1>1, <1>4, <2>1, <2>2
<1>5. ASSUME NEW k \in 1..(Len(s) - 1)
      PROVE  \E j \in 1..Len(s) : j # i /\ r[k] = s[j]
    <2>1. CASE k < i
        <3>1. k \in 1..(i - 1) /\ k \in 1..Len(s) /\ k # i
            BY <1>1, <2>1
        <3>2. QED
            BY <1>3, <3>1
    <2>2. CASE k >= i
        <3>1. k \in i..(Len(s) - 1) /\ k + 1 \in 1..Len(s) /\ k + 1 # i
            BY <1>1, <2>2
        <3>2. QED
            BY <1>3, <3>1
    <2>3. QED
        BY <1>1, <2>1, <2>2
<1>6. QED
    BY <1>2, <1>4, <1>5

-----------------------------------------------------------------------------
(* What the shell needs to know of its children: the pids are 1..n, so the *)
(* next one is new; the groups of the jobs differ from each other, from    *)
(* the terminal's and from the one at hand.                                *)
IsChild(c) == c = [grp |-> c.grp, st |-> c.st, stopPending |-> c.stopPending, contPending |-> c.contPending]

Live(P) == {p \in DOMAIN P : P[p].st \in {"run", "stop"}}

ProcOK(P) == (\E n \in Nat : DOMAIN P = 1..n) /\ \A p \in DOMAIN P : IsChild(P[p])

JobRecord == [pgid : Nat, pids : Seq(Nat), state : {"running", "stopped"}]

GroupsOK(P, J, T) ==
    /\ J \in Seq(JobRecord)
    /\ \A k \in 1..Len(J) : J[k].pgid \in DOMAIN P /\ J[k].pgid # T
    /\ \A k, l \in 1..Len(J) : J[k].pgid = J[l].pgid => k = l

OwnGroup(P, J, g) == g \in DOMAIN P /\ \A k \in 1..Len(J) : J[k].pgid # g

SpawnOK(P, J, s, T) ==
    /\ s = [pc |-> "spawn", n |-> s.n, pids |-> s.pids, pgid |-> s.pgid, fg |-> s.fg]
    /\ s.n \in Nat \ {0} /\ s.pids \in Seq(Nat)
    /\ s.pids = <<>> => s.pgid = 0
    /\ s.pids # <<>> => OwnGroup(P, J, s.pgid)
    /\ ~s.fg => T = Shell

DrainOK(P, J, s, T) ==
    /\ s = [pc |-> "drain", by |-> s.by, at |-> s.at, second |-> s.second, i |-> s.i,
            pgid |-> s.pgid, pids |-> s.pids, stopped |-> s.stopped, continued |-> s.continued]
    /\ s.by \in {"supervise", "wait", "waitall", "poll"}
    /\ s.i \in Nat \ {0} /\ s.pids \in Seq(Nat) /\ s.pgid \in Nat
    /\ s.by # "poll" => OwnGroup(P, J, s.pgid)
    /\ s.by \in {"wait", "waitall"} => T = Shell
    /\ s.by = "poll" =>
        /\ s.at \in 1..Len(J) /\ J[s.at].pgid = s.pgid
        /\ \A p \in Live(P) : p \in Pids(J[s.at]) => p \in Pids(s)

ShOK(P, J, s, T) == s = Prompt \/ SpawnOK(P, J, s, T) \/ DrainOK(P, J, s, T)

Found(p, J, s) == (\E k \in 1..Len(J) : p \in Pids(J[k])) \/ (s # Prompt /\ p \in Pids(s))

AllFound(P, J, s) == \A p \in Live(P) : Found(p, J, s)

Soundly(P, J, s, T) ==
    ProcOK(P) /\ GroupsOK(P, J, T) /\ ShOK(P, J, s, T) /\ AllFound(P, J, s)

ShellInv == Soundly(proc, jobs, sh, tty)

LEMMA ShellInitInv == ShellJobsInit => ShellInv
<1>1. SUFFICES ASSUME ShellJobsInit PROVE ShellInv
    OBVIOUS
<1>2. proc = NoEntries /\ tty = Shell /\ jobs = <<>> /\ sh = Prompt
    BY <1>1 DEF ShellJobsInit
<1>3. DOMAIN proc = 1..0
    BY <1>2 DEF NoEntries
<1>4. ProcOK(proc)
    BY <1>3 DEF ProcOK
<1>5. GroupsOK(proc, jobs, tty)
    BY <1>2 DEF GroupsOK
<1>6. AllFound(proc, jobs, sh)
    BY <1>3 DEF AllFound, Live
<1>7. QED
    BY <1>2, <1>4, <1>5, <1>6 DEF ShellInv, Soundly, ShOK

LEMMA ShellInvSound == ShellInv => NoForgottenChild /\ NoJobHoldsTty
<1>1. SUFFICES ASSUME ShellInv PROVE NoForgottenChild /\ NoJobHoldsTty
    OBVIOUS
<1>2. jobs \in Seq(JobRecord)
    BY <1>1 DEF ShellInv, Soundly, GroupsOK
<1>3. DOMAIN jobs = 1..Len(jobs)
    BY <1>2
<1>4. NoForgottenChild
    BY <1>1, <1>3 DEF ShellInv, Soundly, AllFound, Found, Live, NoForgottenChild, Known, Tabled
<1>5. NoJobHoldsTty
    BY <1>1, <1>3 DEF ShellInv, Soundly, GroupsOK, NoJobHoldsTty
<1>6. QED
    BY <1>4, <1>5

-----------------------------------------------------------------------------
(* The children change, but none is born and none comes back to life.      *)
Tames(P, Q) ==
    /\ DOMAIN Q = DOMAIN P
    /\ \A p \in DOMAIN P : IsChild(Q[p])
    /\ \A p \in DOMAIN P : Q[p].st \in {"run", "stop"} => P[p].st \in {"run", "stop"}

LEMMA TamesKeeps ==
    ASSUME NEW P, NEW Q, NEW J, NEW s, NEW T, Soundly(P, J, s, T), Tames(P, Q)
    PROVE  Soundly(Q, J, s, T)
<1>1. Live(Q) \subseteq Live(P) /\ DOMAIN Q = DOMAIN P
    BY DEF Tames, Live
<1>2. ProcOK(Q) /\ GroupsOK(Q, J, T) /\ AllFound(Q, J, s)
    BY <1>1 DEF Tames, Soundly, ProcOK, GroupsOK, AllFound
<1>3. ShOK(Q, J, s, T)
    <2>1. CASE s = Prompt
        BY <2>1 DEF ShOK
    <2>2. CASE SpawnOK(P, J, s, T)
        BY <1>1, <2>2 DEF ShOK, SpawnOK, OwnGroup
    <2>3. CASE DrainOK(P, J, s, T)
        BY <1>1, <2>3 DEF ShOK, DrainOK, OwnGroup
    <2>4. QED
        BY <2>1, <2>2, <2>3 DEF Soundly, ShOK
<1>4. QED
    BY <1>2, <1>3 DEF Soundly

LEMMA ChildChanges ==
    ASSUME NEW c, IsChild(c)
    PROVE  /\ IsChild(Killed(c)) /\ IsChild(StoppedChild(c)) /\ IsChild(Continued(c))
           /\ Killed(c).st \notin {"run", "stop"} \/ c.st \in {"run", "stop"}
           /\ StoppedChild(c).st \in {"run", "stop"} => c.st \in {"run", "stop"}
           /\ Continued(c).st \in {"run", "stop"} => c.st \in {"run", "stop"}
    BY DEF IsChild, Killed, StoppedChild, Continued

LEMMA GroupChanges ==
    ASSUME ProcOK(proc), NEW g
    PROVE  /\ Tames(proc, OnGroup(g, Killed)) /\ Tames(proc, OnGroup(g, StoppedChild))
           /\ Tames(proc, OnGroup(g, Continued))
    BY ChildChanges DEF ProcOK, Tames, OnGroup

LEMMA ChildStep ==
    ASSUME ProcOK(proc), NEW p \in DOMAIN proc
    PROVE  /\ Tames(proc, [proc EXCEPT ![p] = Killed(@)])
           /\ Tames(proc, [proc EXCEPT ![p] = Continued(@)])
    BY ChildChanges DEF ProcOK, Tames

LEMMA DrainedTames ==
    ASSUME ProcOK(proc), NEW pid
    PROVE  Tames(proc, Drained(pid))
<1>1. CASE proc[pid].st = "zombie"
    BY <1>1 DEF ProcOK, Tames, Drained, IsChild
<1>2. CASE proc[pid].st # "zombie"
    <2>1. PICK Q : Q = [proc EXCEPT ![pid] = [proc[pid] EXCEPT !.stopPending = FALSE, !.contPending = FALSE]]
        OBVIOUS
    <2>2. Drained(pid) = Q
        BY <1>2, <2>1 DEF Drained
    <2>3. \A p \in DOMAIN proc : IsChild(Q[p]) /\ Q[p].st = proc[p].st
        <3>1. PICK c : c = [proc[pid] EXCEPT !.stopPending = FALSE, !.contPending = FALSE]
            OBVIOUS
        <3>2. IsChild(proc[pid]) => IsChild(c) /\ c.st = proc[pid].st
            BY <3>1 DEF IsChild
        <3>3. Q = [proc EXCEPT ![pid] = c]
            BY <2>1, <3>1
        <3>4. QED
            BY <3>2, <3>3 DEF ProcOK
    <2>4. QED
        BY <2>1, <2>2, <2>3 DEF Tames
<1>3. QED
    BY <1>1, <1>2

-----------------------------------------------------------------------------
(* A job goes to the end of the table, or leaves it.                       *)
LEMMA TableAppend ==
    ASSUME NEW P, NEW J, NEW T, GroupsOK(P, J, T), NEW j \in JobRecord, OwnGroup(P, J, j.pgid), j.pgid # T
    PROVE  /\ GroupsOK(P, Append(J, j), T)
           /\ \A k \in 1..Len(J) : \E l \in 1..Len(Append(J, j)) : Append(J, j)[l] = J[k]
           /\ \E l \in 1..Len(Append(J, j)) : Append(J, j)[l] = j
<1>1. J \in Seq(JobRecord) /\ Len(J) \in Nat
    BY LenProperties DEF GroupsOK
<1>2. PICK K : K = Append(J, j)
    OBVIOUS
<1>3. K \in Seq(JobRecord) /\ Len(K) = Len(J) + 1 /\ K[Len(J) + 1] = j /\ \A k \in 1..Len(J) : K[k] = J[k]
    BY <1>1, <1>2, AppendProperties
<1>4. \A k \in 1..Len(K) : k \in 1..Len(J) \/ k = Len(J) + 1
    BY <1>1, <1>3
<1>5. \A k \in 1..Len(J) : k \in 1..Len(K) /\ Len(J) + 1 \in 1..Len(K)
    BY <1>1, <1>3
<1>6. GroupsOK(P, K, T)
    BY <1>3, <1>4 DEF GroupsOK, OwnGroup
<1>7. Len(J) + 1 \in 1..Len(K)
    BY <1>1, <1>3
<1>8. QED
    BY <1>2, <1>3, <1>5, <1>6, <1>7

LEMMA TableRemove ==
    ASSUME NEW P, NEW J, NEW T, GroupsOK(P, J, T), NEW i \in 1..Len(J)
    PROVE  /\ GroupsOK(P, RemoveAt(J, i), T) /\ OwnGroup(P, RemoveAt(J, i), J[i].pgid)
           /\ \A k \in 1..Len(J) : k # i => \E l \in 1..Len(RemoveAt(J, i)) : RemoveAt(J, i)[l] = J[k]
           /\ Len(RemoveAt(J, i)) = Len(J) - 1
<1>1. J \in Seq(JobRecord) /\ Len(J) \in Nat
    BY LenProperties DEF GroupsOK
<1>2. PICK K : K = RemoveAt(J, i)
    OBVIOUS
<1>3. /\ K \in Seq(JobRecord) /\ Len(K) = Len(J) - 1
      /\ \A k \in 1..(i - 1) : K[k] = J[k]
      /\ \A k \in i..(Len(J) - 1) : K[k] = J[k + 1]
    BY <1>1, <1>2, RemoveAtFacts
<1>4. /\ \A j \in 1..Len(J) : j # i => \E k \in 1..Len(K) : K[k] = J[j]
      /\ \A k \in 1..Len(K) : \E j \in 1..Len(J) : j # i /\ K[k] = J[j]
    <2>1. /\ \A j \in 1..Len(J) : j # i => \E k \in 1..(Len(J) - 1) : K[k] = J[j]
          /\ \A k \in 1..(Len(J) - 1) : \E j \in 1..Len(J) : j # i /\ K[k] = J[j]
        BY ONLY <1>1, <1>2, i \in 1..Len(J), RemoveAtKeeps
    <2>2. QED
        BY <1>3, <2>1
<1>5. ASSUME NEW k \in 1..Len(K), NEW l \in 1..Len(K), K[k].pgid = K[l].pgid
      PROVE  k = l
    <2>1. PICK a \in 1..Len(J) : K[k] = J[a] /\ a = (IF k < i THEN k ELSE k + 1)
        BY <1>1, <1>3
    <2>2. PICK b \in 1..Len(J) : K[l] = J[b] /\ b = (IF l < i THEN l ELSE l + 1)
        BY <1>1, <1>3
    <2>3. a = b
        BY <1>5, <2>1, <2>2 DEF GroupsOK
    <2>4. QED
        BY <1>1, <1>3, <2>1, <2>2, <2>3
<1>6. ASSUME NEW k \in 1..Len(K)
      PROVE  K[k].pgid \in DOMAIN P /\ K[k].pgid # T /\ K[k].pgid # J[i].pgid
    BY <1>4 DEF GroupsOK
<1>7. GroupsOK(P, K, T)
    BY <1>3, <1>5, <1>6 DEF GroupsOK
<1>8. OwnGroup(P, K, J[i].pgid)
    BY <1>6 DEF GroupsOK, OwnGroup
<1>9. QED
    BY <1>2, <1>3, <1>4, <1>7, <1>8

LEMMA TailIsRemove ==
    ASSUME NEW S, NEW s \in Seq(S), s # <<>>
    PROVE  Tail(s) = RemoveAt(s, 1) /\ 1 \in 1..Len(s)
<1>1. Len(s) \in Nat \ {0} /\ 1 \in 1..Len(s)
    BY LenProperties, EmptySeq
<1>2. PICK r : r = RemoveAt(s, 1)
    OBVIOUS
<1>3. r \in Seq(S) /\ Len(r) = Len(s) - 1 /\ \A j \in 1..(Len(s) - 1) : r[j] = s[j + 1]
    BY <1>1, <1>2, RemoveAtFacts
<1>4. PICK t : t = Tail(s)
    OBVIOUS
<1>5. t \in Seq(S) /\ Len(t) = Len(s) - 1 /\ \A j \in 1..Len(t) : t[j] = s[j + 1]
    BY <1>4, HeadTailProperties
<1>6. t = r
    BY <1>3, <1>5, SeqEqual
<1>7. QED
    BY <1>1, <1>2, <1>4, <1>6

(* A job that only changes its state, or its children.                     *)
LEMMA TableSet ==
    ASSUME NEW P, NEW J, NEW T, GroupsOK(P, J, T), NEW i \in 1..Len(J), NEW j \in JobRecord, j.pgid = J[i].pgid
    PROVE  /\ GroupsOK(P, [J EXCEPT ![i] = j], T) /\ Len([J EXCEPT ![i] = j]) = Len(J)
           /\ [J EXCEPT ![i] = j][i] = j
           /\ \A k \in 1..Len(J) : k # i => [J EXCEPT ![i] = j][k] = J[k]
<1>1. J \in Seq(JobRecord) /\ Len(J) \in Nat
    BY LenProperties DEF GroupsOK
<1>2. PICK K : K = [J EXCEPT ![i] = j]
    OBVIOUS
<1>3. K \in Seq(JobRecord) /\ Len(K) = Len(J) /\ K[i] = j /\ \A k \in 1..Len(J) : k # i => K[k] = J[k]
    BY <1>1, <1>2
<1>4. \A k \in 1..Len(J) : K[k].pgid = J[k].pgid
    BY <1>3
<1>5. GroupsOK(P, K, T)
    BY <1>3, <1>4 DEF GroupsOK
<1>6. QED
    BY <1>2, <1>3, <1>5

LEMMA DrainFields ==
    ASSUME NEW g, NEW by, NEW at
    PROVE  /\ Drain(g, by, at) # Prompt /\ Pids(Drain(g, by, at)) = Pids(g)
           /\ Drain(g, by, at).pids = g.pids /\ Drain(g, by, at).pgid = g.pgid
<1>1. PICK d : d = Drain(g, by, at)
    OBVIOUS
<1>2. d.pc = "drain" /\ d.pids = g.pids /\ d.pgid = g.pgid
    BY <1>1 DEF Drain
<1>3. Prompt.pc = "prompt"
    BY DEF Prompt
<1>4. QED
    BY <1>1, <1>2, <1>3 DEF Pids

LEMMA DrainStarts ==
    ASSUME NEW P, NEW J, NEW T, NEW g, NEW by \in {"supervise", "wait", "waitall"}, g.pids \in Seq(Nat),
           g.pgid \in Nat, OwnGroup(P, J, g.pgid), by # "supervise" => T = Shell
    PROVE  ShOK(P, J, Drain(g, by, 0), T)
    BY DEF ShOK, DrainOK, Drain

LEMMA PollStarts ==
    ASSUME NEW P, NEW J, NEW T, GroupsOK(P, J, T), NEW k \in Nat \ {0}
    PROVE  ShOK(P, J, PollFrom(J, k), T)
<1>1. CASE k > Len(J)
    BY <1>1 DEF PollFrom, ShOK
<1>2. CASE ~(k > Len(J))
    <2>1. Len(J) \in Nat /\ J \in Seq(JobRecord)
        BY LenProperties DEF GroupsOK
    <2>2. k \in 1..Len(J)
        BY <1>2, <2>1
    <2>3. J[k] \in JobRecord
        BY <2>1, <2>2, ElementOfSeq
    <2>4. PICK d : d = Drain(J[k], "poll", k)
        OBVIOUS
    <2>5. Pids(d) = Pids(J[k])
        BY <2>4, DrainFields
    <2>6. DrainOK(P, J, d, T)
        BY <2>2, <2>3, <2>4, <2>5 DEF DrainOK, Drain, JobRecord
    <2>7. QED
        BY <1>2, <2>4, <2>6 DEF PollFrom, ShOK
<1>3. QED
    BY <1>1, <1>2

-----------------------------------------------------------------------------
(* The steps.                                                              *)
LEMMA ExecuteGroupInv ==
    ASSUME ShellInv, NEW n \in 1..2, NEW f, execute_group(n, f)
    PROVE  ShellInv'
<1>1. PICK s : s = [pc |-> "spawn", n |-> n, pids |-> <<>>, pgid |-> 0, fg |-> f]
    OBVIOUS
<1>2. sh' = s /\ UNCHANGED <<proc, tty, jobs>> /\ sh = Prompt /\ tty = Shell
    BY <1>1 DEF execute_group
<1>3. SpawnOK(proc, jobs, s, tty)
    BY <1>1, <1>2 DEF SpawnOK
<1>4. AllFound(proc, jobs, s)
    BY <1>2 DEF ShellInv, Soundly, AllFound, Found
<1>5. QED
    BY <1>2, <1>3, <1>4 DEF ShellInv, Soundly, ShOK

LEMMA SpawnStageInv ==
    ASSUME ShellInv, spawn_stage
    PROVE  ShellInv'
<1>1. PICK n \in Nat : DOMAIN proc = 1..n
    BY DEF ShellInv, Soundly, ProcOK
<1>2. NextPid = n + 1
    <2>1. Cardinality(1..n) = n
        BY FS_Interval
    <2>2. QED
        BY <1>1, <2>1 DEF NextPid
<1>3. PICK g : g = IF sh.pgid = 0 THEN n + 1 ELSE sh.pgid
    OBVIOUS
<1>4. /\ proc' = Put(proc, n + 1, NewChild(g))
      /\ tty' = IF sh.fg THEN SetTty(g, proc') ELSE tty
      /\ sh' = [sh EXCEPT !.pgid = g, !.pids = Append(@, n + 1)]
      /\ UNCHANGED jobs /\ sh.pc = "spawn"
    BY <1>2, <1>3 DEF spawn_stage, Spawning
<1>5. SpawnOK(proc, jobs, sh, tty)
    BY <1>4 DEF ShellInv, Soundly, ShOK, DrainOK, Prompt
<1>6. DOMAIN proc' = 1..(n + 1) /\ proc'[n + 1] = NewChild(g) /\ \A p \in 1..n : proc'[p] = proc[p]
    BY <1>1, <1>4 DEF Put
<1>7. ProcOK(proc')
    <2>1. IsChild(NewChild(g))
        BY DEF NewChild, IsChild
    <2>2. \A p \in 1..(n + 1) : p \in 1..n \/ p = n + 1
        OBVIOUS
    <2>3. n + 1 \in Nat
        OBVIOUS
    <2>4. QED
        BY <1>1, <1>6, <2>1, <2>2, <2>3 DEF ShellInv, Soundly, ProcOK
<1>8. /\ jobs \in Seq(JobRecord) /\ \A k \in 1..Len(jobs) : jobs[k].pgid \in 1..n /\ jobs[k].pgid # tty
      /\ \A k, l \in 1..Len(jobs) : jobs[k].pgid = jobs[l].pgid => k = l
    BY <1>1 DEF ShellInv, Soundly, GroupsOK
<1>9. g \in 1..(n + 1) /\ \A k \in 1..Len(jobs) : jobs[k].pgid # g
    <2>1. CASE sh.pids = <<>>
        <3>1. g = n + 1
            BY <1>3, <1>5, <2>1 DEF SpawnOK
        <3>2. QED
            BY <1>8, <3>1
    <2>2. CASE sh.pids # <<>>
        <3>1. sh.pgid \in 1..n /\ \A k \in 1..Len(jobs) : jobs[k].pgid # sh.pgid
            BY <1>1, <1>5, <2>2 DEF SpawnOK, OwnGroup
        <3>2. g = sh.pgid
            BY <1>3, <3>1
        <3>3. QED
            BY <3>1, <3>2
    <2>3. QED
        BY <2>1, <2>2
<1>10. tty' \in {g, tty}
    BY <1>4 DEF SetTty
<1>11. GroupsOK(proc', jobs, tty')
    <2>1. \A k \in 1..Len(jobs) : jobs[k].pgid \in DOMAIN proc'
        BY <1>6, <1>8
    <2>2. QED
        BY <1>8, <1>9, <1>10, <2>1 DEF GroupsOK
<1>12. PICK q : q = Append(sh.pids, n + 1)
    OBVIOUS
<1>13. sh.pids \in Seq(Nat) /\ Len(sh.pids) \in Nat
    BY <1>5, LenProperties DEF SpawnOK
<1>14. q \in Seq(Nat) /\ Len(q) = Len(sh.pids) + 1 /\ q[Len(q)] = n + 1 /\ \A i \in 1..Len(sh.pids) : q[i] = sh.pids[i]
    BY <1>12, <1>13, AppendProperties
<1>15. sh' = [pc |-> "spawn", n |-> sh.n, pids |-> q, pgid |-> g, fg |-> sh.fg]
    BY <1>4, <1>5, <1>12 DEF SpawnOK
<1>16. SpawnOK(proc', jobs, sh', tty')
    <2>1. q # <<>>
        BY <1>13, <1>14, EmptySeq
    <2>2. OwnGroup(proc', jobs, g)
        BY <1>6, <1>9 DEF OwnGroup
    <2>3. ~sh.fg => tty' = Shell
        BY <1>4, <1>5 DEF SpawnOK
    <2>4. PICK t : t = sh'
        OBVIOUS
    <2>5. /\ t = [pc |-> "spawn", n |-> t.n, pids |-> t.pids, pgid |-> t.pgid, fg |-> t.fg]
          /\ t.n = sh.n /\ t.pids = q /\ t.pgid = g /\ t.fg = sh.fg
        BY <1>15, <2>4
    <2>6. SpawnOK(proc', jobs, t, tty')
        BY <1>5, <1>14, <2>1, <2>2, <2>3, <2>5 DEF SpawnOK
    <2>7. QED
        BY <2>4, <2>6
<1>17. sh' # Prompt /\ sh'.pids = q /\ sh # Prompt
    <2>1. Prompt.pc = "prompt"
        BY DEF Prompt
    <2>2. sh'.pc = "spawn" /\ sh'.pids = q
        BY <1>15
    <2>3. QED
        BY <1>4, <2>1, <2>2
<1>18. AllFound(proc', jobs, sh')
    <2>1. SUFFICES ASSUME NEW p \in Live(proc') PROVE Found(p, jobs, sh')
        BY DEF AllFound
    <2>2. CASE p = n + 1
        <3>1. Len(q) \in 1..Len(q)
            BY <1>13, <1>14
        <3>2. p \in Pids(sh')
            BY <1>14, <1>17, <2>2, <3>1 DEF Pids
        <3>3. QED
            BY <1>17, <3>2 DEF Found
    <2>3. CASE p # n + 1
        <3>1. p \in 1..n /\ p \in Live(proc)
            BY <1>1, <1>6, <2>1, <2>3 DEF Live
        <3>2. Found(p, jobs, sh)
            BY <3>1 DEF ShellInv, Soundly, AllFound
        <3>3. p \in Pids(sh) => p \in Pids(sh')
            <4>1. SUFFICES ASSUME NEW i \in 1..Len(sh.pids), p = sh.pids[i] PROVE p \in Pids(sh')
                BY DEF Pids
            <4>2. i \in 1..Len(q) /\ q[i] = p
                BY <1>13, <1>14, <4>1
            <4>3. QED
                BY <1>17, <4>2 DEF Pids
        <3>4. QED
            BY <1>17, <3>2, <3>3 DEF Found
    <2>4. QED
        BY <2>2, <2>3
<1>19. QED
    BY <1>4, <1>7, <1>11, <1>16, <1>18 DEF ShellInv, Soundly, ShOK

LEMMA SpawnFailsInv ==
    ASSUME ShellInv, spawn_fails
    PROVE  ShellInv'
<1>1. proc' = StagesKilled /\ sh' = Prompt /\ UNCHANGED <<tty, jobs>> /\ sh.pc = "spawn"
    BY DEF spawn_fails, Spawning
<1>2. Tames(proc, proc')
    BY <1>1, ChildChanges DEF StagesKilled, Tames, ShellInv, Soundly, ProcOK
<1>3. Soundly(proc', jobs, sh, tty)
    BY <1>2, TamesKeeps DEF ShellInv
<1>4. \A p \in Live(proc') : p \notin Pids(sh)
    <2>1. SUFFICES ASSUME NEW p \in Live(proc'), p \in Pids(sh) PROVE FALSE
        OBVIOUS
    <2>2. proc'[p] = Killed(proc[p]) /\ p \in DOMAIN proc /\ IsChild(proc[p])
        BY <1>1, <2>1 DEF StagesKilled, Live, ShellInv, Soundly, ProcOK
    <2>3. proc'[p].st \notin {"run", "stop"}
        BY <2>2 DEF Killed, IsChild
    <2>4. QED
        BY <2>1, <2>3 DEF Live
<1>5. AllFound(proc', jobs, Prompt)
    BY <1>3, <1>4 DEF Soundly, AllFound, Found
<1>6. QED
    BY <1>1, <1>3, <1>5 DEF ShellInv, Soundly, ShOK

LEMMA JobOfFields ==
    ASSUME NEW g, NEW how \in {"running", "stopped"}, g.pgid \in Nat, g.pids \in Seq(Nat)
    PROVE  /\ JobOf(g, how) \in JobRecord /\ JobOf(g, how).pgid = g.pgid
           /\ Pids(JobOf(g, how)) = Pids(g)
<1>1. PICK j : j = JobOf(g, how)
    OBVIOUS
<1>2. j.pgid = g.pgid /\ j.pids = g.pids /\ j \in JobRecord
    BY <1>1 DEF JobOf, JobRecord
<1>3. QED
    BY <1>1, <1>2 DEF Pids

(* What is at hand goes to the end of the table.                           *)
LEMMA Tabling ==
    ASSUME NEW P, NEW J, NEW s, NEW T, NEW U, Soundly(P, J, s, T), NEW how \in {"running", "stopped"},
           s # Prompt, s.pids \in Seq(Nat), OwnGroup(P, J, s.pgid), GroupsOK(P, J, U), s.pgid # U
    PROVE  Soundly(P, Append(J, JobOf(s, how)), Prompt, U)
<1>1. s.pgid \in Nat
    BY DEF Soundly, ProcOK, OwnGroup
<1>2. PICK j : j = JobOf(s, how)
    OBVIOUS
<1>3. j \in JobRecord /\ j.pgid = s.pgid /\ Pids(j) = Pids(s)
    BY <1>1, <1>2, JobOfFields
<1>4. PICK K : K = Append(J, j)
    OBVIOUS
<1>5. /\ GroupsOK(P, K, U) /\ \E l \in 1..Len(K) : K[l] = j
      /\ \A k \in 1..Len(J) : \E l \in 1..Len(K) : K[l] = J[k]
    BY <1>3, <1>4, TableAppend
<1>6. AllFound(P, K, Prompt)
    BY <1>3, <1>5 DEF Soundly, AllFound, Found
<1>7. QED
    BY <1>2, <1>4, <1>5, <1>6 DEF Soundly, ShOK

(* The drain of what is at hand begins, or begins again.                   *)
LEMMA Draining ==
    ASSUME NEW P, NEW J, NEW s, NEW T, NEW U, Soundly(P, J, s, T), NEW by \in {"supervise", "wait", "waitall"},
           s # Prompt, s.pids \in Seq(Nat), OwnGroup(P, J, s.pgid), GroupsOK(P, J, U),
           by # "supervise" => U = Shell
    PROVE  Soundly(P, J, Drain(s, by, 0), U)
<1>1. s.pgid \in Nat
    BY DEF Soundly, ProcOK, OwnGroup
<1>2. ShOK(P, J, Drain(s, by, 0), U)
    BY <1>1, DrainStarts
<1>3. AllFound(P, J, Drain(s, by, 0))
    BY DrainFields DEF Soundly, AllFound, Found
<1>4. QED
    BY <1>2, <1>3 DEF Soundly

(* A group with the terminal in its hand that no job has.                  *)
LEMMA TtyGiven ==
    ASSUME NEW P, NEW J, GroupsOK(P, J, tty), NEW g, \A k \in 1..Len(J) : J[k].pgid # g, NEW Q
    PROVE  GroupsOK(P, J, SetTty(g, Q))
    BY DEF GroupsOK, SetTty

LEMMA ShellHasTty ==
    ASSUME NEW P, ProcOK(P), NEW J, NEW T, GroupsOK(P, J, T)
    PROVE  GroupsOK(P, J, Shell)
    BY DEF GroupsOK, ProcOK, Shell

LEMMA SpawnedInv ==
    ASSUME ShellInv, spawned
    PROVE  ShellInv'
<1>1. sh.pc = "spawn" /\ Len(sh.pids) = sh.n /\ UNCHANGED proc
    BY DEF spawned
<1>2. SpawnOK(proc, jobs, sh, tty) /\ sh # Prompt
    BY <1>1 DEF ShellInv, Soundly, ShOK, DrainOK, Prompt
<1>3. sh.pids \in Seq(Nat) /\ sh.pids # <<>> /\ OwnGroup(proc, jobs, sh.pgid)
    <2>1. sh.pids \in Seq(Nat) /\ Len(sh.pids) # 0
        BY <1>1, <1>2 DEF SpawnOK
    <2>2. sh.pids # <<>>
        BY <2>1, EmptySeq
    <2>3. QED
        BY <1>2, <2>1, <2>2 DEF SpawnOK
<1>4. CASE sh.fg
    <2>1. tty' = SetTty(sh.pgid, proc) /\ sh' = Drain(sh, "supervise", 0) /\ UNCHANGED jobs
        BY <1>4 DEF spawned
    <2>2. GroupsOK(proc, jobs, SetTty(sh.pgid, proc))
        BY <1>3, TtyGiven DEF ShellInv, Soundly, OwnGroup
    <2>3. Soundly(proc, jobs, Drain(sh, "supervise", 0), SetTty(sh.pgid, proc))
        BY <1>2, <1>3, <2>2, Draining DEF ShellInv
    <2>4. QED
        BY <1>1, <2>1, <2>3 DEF ShellInv
<1>5. CASE ~sh.fg
    <2>1. jobs' = Append(jobs, JobOf(sh, "running")) /\ sh' = Prompt /\ UNCHANGED tty
        BY <1>5 DEF spawned
    <2>2. tty = Shell
        BY <1>2, <1>5 DEF SpawnOK
    <2>3. sh.pgid # tty
        BY <1>3, <2>2 DEF OwnGroup, ShellInv, Soundly, ProcOK, Shell
    <2>4. GroupsOK(proc, jobs, tty) /\ Soundly(proc, jobs, sh, tty)
        BY DEF ShellInv, Soundly
    <2>5. Soundly(proc, Append(jobs, JobOf(sh, "running")), Prompt, tty)
        BY <1>2, <1>3, <2>3, <2>4, Tabling
    <2>6. QED
        BY <1>1, <2>1, <2>5 DEF ShellInv
<1>6. QED
    BY <1>4, <1>5

(* The drain at hand, and its fields.                                      *)
LEMMA DrainAtHand ==
    ASSUME ShellInv, sh.pc = "drain"
    PROVE  DrainOK(proc, jobs, sh, tty) /\ sh # Prompt
<1>1. Prompt.pc = "prompt"
    BY DEF Prompt
<1>2. QED
    BY <1>1 DEF ShellInv, Soundly, ShOK, SpawnOK

IsDrain(x) ==
    x = [pc |-> "drain", by |-> x.by, at |-> x.at, second |-> x.second, i |-> x.i,
         pgid |-> x.pgid, pids |-> x.pids, stopped |-> x.stopped, continued |-> x.continued]

LEMMA ReapGroupInv ==
    ASSUME ShellInv, reap_group_nonblocking
    PROVE  ShellInv'
<1>1. PICK pid : pid = sh.pids[sh.i]
    OBVIOUS
<1>2. /\ sh.pc = "drain" /\ sh.i <= Len(sh.pids) /\ proc' = Drained(pid) /\ UNCHANGED <<tty, jobs>>
      /\ sh' = IF proc[pid].st = "zombie"
               THEN [sh EXCEPT !.pids = RemoveAt(@, sh.i)]
               ELSE [sh EXCEPT !.i = @ + 1,
                               !.stopped = @ \/ Transition(pid) = "stopped",
                               !.continued = @ \/ Transition(pid) = "continued"]
    BY <1>1 DEF reap_group_nonblocking
<1>3. DrainOK(proc, jobs, sh, tty) /\ sh # Prompt
    BY <1>2, DrainAtHand
<1>4. Tames(proc, proc')
    BY <1>2, DrainedTames DEF ShellInv, Soundly
<1>5. Soundly(proc', jobs, sh, tty)
    BY <1>4, TamesKeeps DEF ShellInv
<1>6. DrainOK(proc', jobs, sh, tty)
    BY <1>2, <1>3, <1>5 DEF Soundly, ShOK, SpawnOK
<1>7. Prompt.pc = "prompt"
    BY DEF Prompt
<1>8. CASE proc[pid].st = "zombie"
    <2>1. PICK q : q = RemoveAt(sh.pids, sh.i)
        OBVIOUS
    <2>2. sh.pids \in Seq(Nat) /\ sh.i \in 1..Len(sh.pids) /\ Len(sh.pids) \in Nat
        BY <1>2, <1>3, LenProperties DEF DrainOK
    <2>3. q \in Seq(Nat) /\ Len(q) = Len(sh.pids) - 1
        BY <2>1, <2>2, RemoveAtFacts
    <2>4. PICK s : s = [sh EXCEPT !.pids = q]
        OBVIOUS
    <2>5. sh' = s
        BY <1>2, <1>3, <1>8, <2>1, <2>4 DEF DrainOK
    <2>6. /\ s = [pc |-> "drain", by |-> s.by, at |-> s.at, second |-> s.second, i |-> s.i,
                  pgid |-> s.pgid, pids |-> s.pids, stopped |-> s.stopped, continued |-> s.continued]
          /\ s.by = sh.by /\ s.at = sh.at /\ s.i = sh.i /\ s.pgid = sh.pgid /\ s.pids = q
        BY <1>3, <2>4 DEF DrainOK
    <2>7. s # Prompt
        BY <1>7, <2>6
    <2>8. \A p \in Live(proc') : p # pid
        BY <1>4, <1>8 DEF Live, Tames
    <2>9. \A p \in Live(proc') : p \in Pids(sh) => p \in Pids(s)
        <3>1. SUFFICES ASSUME NEW p \in Live(proc'), NEW j \in 1..Len(sh.pids), p = sh.pids[j]
                       PROVE  p \in Pids(s)
            BY DEF Pids
        <3>2. j # sh.i
            BY <1>1, <2>8, <3>1
        <3>3. PICK k \in 1..(Len(sh.pids) - 1) : q[k] = sh.pids[j]
            BY <2>1, <2>2, <3>2, RemoveAtKeeps
        <3>4. QED
            BY <2>3, <2>6, <3>1, <3>3 DEF Pids
    <2>10. DrainOK(proc', jobs, s, tty)
        BY <1>6, <2>3, <2>6, <2>9 DEF DrainOK
    <2>11. AllFound(proc', jobs, s)
        BY <1>5, <2>7, <2>9 DEF Soundly, AllFound, Found
    <2>12. QED
        BY <1>2, <1>5, <2>5, <2>10, <2>11 DEF ShellInv, Soundly, ShOK
<1>9. CASE proc[pid].st # "zombie"
    <2>1. PICK a : a = (sh.stopped \/ Transition(pid) = "stopped")
        OBVIOUS
    <2>2. PICK b : b = (sh.continued \/ Transition(pid) = "continued")
        OBVIOUS
    <2>3. IsDrain(sh)
        BY <1>3 DEF DrainOK, IsDrain
    <2>4. PICK s : /\ IsDrain(s) /\ s.by = sh.by /\ s.at = sh.at /\ s.i = sh.i + 1
                   /\ s.pgid = sh.pgid /\ s.pids = sh.pids /\ sh' = s
        <3>1. PICK t : t = [sh EXCEPT !.i = sh.i + 1]
            OBVIOUS
        <3>2. /\ IsDrain(t) /\ t.by = sh.by /\ t.at = sh.at /\ t.i = sh.i + 1
              /\ t.pgid = sh.pgid /\ t.pids = sh.pids
            BY <2>3, <3>1 DEF IsDrain
        <3>3. PICK u : u = [t EXCEPT !.stopped = a]
            OBVIOUS
        <3>4. /\ IsDrain(u) /\ u.by = sh.by /\ u.at = sh.at /\ u.i = sh.i + 1
              /\ u.pgid = sh.pgid /\ u.pids = sh.pids
            BY <3>2, <3>3 DEF IsDrain
        <3>5. PICK s : s = [u EXCEPT !.continued = b]
            OBVIOUS
        <3>6. /\ IsDrain(s) /\ s.by = sh.by /\ s.at = sh.at /\ s.i = sh.i + 1
              /\ s.pgid = sh.pgid /\ s.pids = sh.pids
            BY <3>4, <3>5 DEF IsDrain
        <3>7. s = [sh EXCEPT !.i = sh.i + 1, !.stopped = a, !.continued = b]
            BY <3>1, <3>3, <3>5
        <3>8. sh' = [sh EXCEPT !.i = sh.i + 1, !.stopped = a, !.continued = b]
            BY <1>2, <1>3, <1>9, <2>1, <2>2 DEF DrainOK
        <3>9. QED
            BY <3>6, <3>7, <3>8
    <2>6. s # Prompt /\ Pids(s) = Pids(sh)
        <3>1. s.pc = "drain"
            BY <2>4 DEF IsDrain
        <3>2. QED
            BY <1>7, <2>4, <3>1 DEF Pids
    <2>7. DrainOK(proc', jobs, s, tty)
        BY <1>6, <2>4, <2>6 DEF DrainOK, IsDrain
    <2>8. AllFound(proc', jobs, s)
        BY <1>5, <2>6 DEF Soundly, AllFound, Found
    <2>9. QED
        BY <1>2, <1>5, <2>4, <2>7, <2>8 DEF ShellInv, Soundly, ShOK
<1>10. QED
    BY <1>8, <1>9

LEMMA NormaliseInv ==
    ASSUME ShellInv, normalise
    PROVE  ShellInv'
<1>1. /\ sh.pc = "drain" /\ proc' = OnGroup(sh.pgid, StoppedChild) /\ UNCHANGED <<tty, jobs>>
      /\ sh' = [sh EXCEPT !.second = TRUE, !.i = 1]
    BY DEF normalise, DrainDone
<1>2. DrainOK(proc, jobs, sh, tty) /\ sh # Prompt
    BY <1>1, DrainAtHand
<1>3. Tames(proc, proc')
    BY <1>1, GroupChanges DEF ShellInv, Soundly
<1>4. Soundly(proc', jobs, sh, tty)
    BY <1>3, TamesKeeps DEF ShellInv
<1>5. DrainOK(proc', jobs, sh, tty)
    BY <1>1, <1>2, <1>4 DEF Soundly, ShOK, SpawnOK
<1>6. Prompt.pc = "prompt"
    BY DEF Prompt
<1>7. PICK s : s = sh'
    OBVIOUS
<1>8. /\ s = [pc |-> "drain", by |-> s.by, at |-> s.at, second |-> s.second, i |-> s.i,
              pgid |-> s.pgid, pids |-> s.pids, stopped |-> s.stopped, continued |-> s.continued]
      /\ s.by = sh.by /\ s.at = sh.at /\ s.i = 1 /\ s.pgid = sh.pgid /\ s.pids = sh.pids
    BY <1>1, <1>2, <1>7 DEF DrainOK
<1>9. s # Prompt /\ Pids(s) = Pids(sh)
    BY <1>6, <1>8 DEF Pids
<1>10. DrainOK(proc', jobs, s, tty)
    BY <1>5, <1>8, <1>9 DEF DrainOK
<1>11. AllFound(proc', jobs, s)
    BY <1>4, <1>9 DEF Soundly, AllFound, Found
<1>12. QED
    BY <1>1, <1>4, <1>7, <1>10, <1>11 DEF ShellInv, Soundly, ShOK

LEMMA EmptyHasNone ==
    ASSUME NEW s, s.pids = <<>>
    PROVE  Pids(s) = {}
    BY DEF Pids

(* Nothing is at hand any more.                                            *)
LEMMA Finished ==
    ASSUME NEW P, NEW J, NEW s, NEW T, NEW U, Soundly(P, J, s, T), s.pids = <<>>, GroupsOK(P, J, U)
    PROVE  Soundly(P, J, Prompt, U)
<1>1. Pids(s) = {}
    BY EmptyHasNone
<1>2. AllFound(P, J, Prompt)
    BY <1>1 DEF Soundly, AllFound, Found
<1>3. QED
    BY <1>2 DEF Soundly, ShOK

LEMMA SuperviseInv ==
    ASSUME ShellInv, supervise_group
    PROVE  ShellInv'
<1>1. sh.pc = "drain" /\ sh.by = "supervise" /\ UNCHANGED proc
    BY DEF supervise_group, DrainDone
<1>2. DrainOK(proc, jobs, sh, tty) /\ sh # Prompt
    BY <1>1, DrainAtHand
<1>3. sh.pids \in Seq(Nat) /\ OwnGroup(proc, jobs, sh.pgid)
    BY <1>1, <1>2 DEF DrainOK
<1>4. Soundly(proc, jobs, sh, tty) /\ GroupsOK(proc, jobs, tty) /\ GroupsOK(proc, jobs, Shell) /\ sh.pgid # Shell
    <2>1. Soundly(proc, jobs, sh, tty) /\ GroupsOK(proc, jobs, tty) /\ ProcOK(proc)
        BY DEF ShellInv, Soundly
    <2>2. GroupsOK(proc, jobs, Shell)
        BY <2>1, ShellHasTty
    <2>3. sh.pgid # Shell
        BY <1>3, <2>1 DEF OwnGroup, ProcOK, Shell
    <2>4. QED
        BY <2>1, <2>2, <2>3
<1>5. CASE sh.second
    <2>1. tty' = Shell /\ jobs' = Append(jobs, JobOf(sh, "stopped")) /\ sh' = Prompt
        BY <1>5 DEF supervise_group, reclaim_shell_tty
    <2>2. Soundly(proc, Append(jobs, JobOf(sh, "stopped")), Prompt, Shell)
        BY <1>2, <1>3, <1>4, Tabling
    <2>3. QED
        BY <1>1, <2>1, <2>2 DEF ShellInv
<1>6. CASE ~sh.second /\ sh.pids = <<>>
    <2>1. tty' = Shell /\ jobs' = jobs /\ sh' = Prompt
        BY <1>6 DEF supervise_group, reclaim_shell_tty
    <2>2. Soundly(proc, jobs, Prompt, Shell)
        BY <1>4, <1>6, Finished
    <2>3. QED
        BY <1>1, <2>1, <2>2 DEF ShellInv
<1>7. CASE ~sh.second /\ sh.pids # <<>>
    <2>1. UNCHANGED <<tty, jobs>> /\ sh' = Drain(sh, "supervise", 0)
        BY <1>7 DEF supervise_group
    <2>2. Soundly(proc, jobs, Drain(sh, "supervise", 0), tty)
        BY <1>2, <1>3, <1>4, Draining
    <2>3. QED
        BY <1>1, <2>1, <2>2 DEF ShellInv
<1>8. QED
    BY <1>5, <1>6, <1>7

(* A job is taken off the table to be waited for, with nothing at hand.    *)
LEMMA WaitOnInv ==
    ASSUME ShellInv, UNCHANGED <<proc, tty>>, Soundly(proc, jobs, Prompt, tty), tty = Shell,
           NEW k \in 1..Len(jobs), NEW by \in {"wait", "waitall"}, WaitOn(RemoveAt(jobs, k), k, by)
    PROVE  ShellInv'
<1>1. PICK K : K = RemoveAt(jobs, k)
    OBVIOUS
<1>2. GroupsOK(proc, jobs, tty) /\ ProcOK(proc) /\ jobs \in Seq(JobRecord)
    BY DEF ShellInv, Soundly, GroupsOK
<1>3. jobs[k] \in JobRecord
    BY <1>2, ElementOfSeq
<1>4. /\ GroupsOK(proc, K, tty) /\ OwnGroup(proc, K, jobs[k].pgid)
      /\ \A j \in 1..Len(jobs) : j # k => \E l \in 1..Len(K) : K[l] = jobs[j]
    BY <1>1, <1>2, TableRemove
<1>5. \A p \in Live(proc) : \E j \in 1..Len(jobs) : p \in Pids(jobs[j])
    BY DEF Soundly, AllFound, Found
<1>6. CASE jobs[k].state = "stopped"
    <2>1. jobs' = Append(K, jobs[k]) /\ sh' = Prompt
        BY <1>1, <1>6 DEF WaitOn
    <2>2. jobs[k].pgid # tty
        BY <1>2 DEF GroupsOK
    <2>3. PICK L : L = Append(K, jobs[k])
        OBVIOUS
    <2>4. /\ GroupsOK(proc, L, tty) /\ \E l \in 1..Len(L) : L[l] = jobs[k]
          /\ \A j \in 1..Len(K) : \E l \in 1..Len(L) : L[l] = K[j]
        BY <1>3, <1>4, <2>2, <2>3, TableAppend
    <2>5. \A j \in 1..Len(jobs) : \E l \in 1..Len(L) : L[l] = jobs[j]
        <3>1. SUFFICES ASSUME NEW j \in 1..Len(jobs) PROVE \E l \in 1..Len(L) : L[l] = jobs[j]
            OBVIOUS
        <3>2. CASE j = k
            BY <2>4, <3>2
        <3>3. CASE j # k
            <4>1. PICK m \in 1..Len(K) : K[m] = jobs[j]
                BY <1>4, <3>3
            <4>2. QED
                BY <2>4, <4>1
        <3>4. QED
            BY <3>2, <3>3
    <2>6. AllFound(proc, L, Prompt)
        BY <1>5, <2>5 DEF AllFound, Found
    <2>7. Soundly(proc, L, Prompt, tty)
        BY <1>2, <2>4, <2>6 DEF Soundly, ShOK
    <2>8. QED
        BY <2>1, <2>3, <2>7 DEF ShellInv
<1>7. CASE jobs[k].state # "stopped"
    <2>1. jobs' = K /\ sh' = Drain(jobs[k], by, 0)
        BY <1>1, <1>7 DEF WaitOn
    <2>2. PICK d : d = Drain(jobs[k], by, 0)
        OBVIOUS
    <2>3. d # Prompt /\ Pids(d) = Pids(jobs[k])
        BY <2>2, DrainFields
    <2>4. ShOK(proc, K, d, tty)
        BY <1>3, <1>4, <2>2, DrainStarts DEF JobRecord
    <2>5. AllFound(proc, K, d)
        <3>1. SUFFICES ASSUME NEW p \in Live(proc) PROVE Found(p, K, d)
            BY DEF AllFound
        <3>2. PICK j \in 1..Len(jobs) : p \in Pids(jobs[j])
            BY <1>5
        <3>3. QED
            BY <1>4, <2>3, <3>2 DEF Found
    <2>6. Soundly(proc, K, d, tty)
        BY <1>2, <1>4, <2>4, <2>5 DEF Soundly
    <2>7. QED
        BY <2>1, <2>2, <2>6 DEF ShellInv
<1>8. QED
    BY <1>6, <1>7

LEMMA WaitJobInv ==
    ASSUME ShellInv, wait_job
    PROVE  ShellInv'
<1>1. sh.pc = "drain" /\ sh.by \in {"wait", "waitall"} /\ UNCHANGED <<proc, tty>>
    BY DEF wait_job, DrainDone
<1>2. DrainOK(proc, jobs, sh, tty) /\ sh # Prompt
    BY <1>1, DrainAtHand
<1>3. sh.pids \in Seq(Nat) /\ OwnGroup(proc, jobs, sh.pgid) /\ tty = Shell
    BY <1>1, <1>2 DEF DrainOK
<1>4. Soundly(proc, jobs, sh, tty) /\ GroupsOK(proc, jobs, tty) /\ sh.pgid # tty
    BY <1>3 DEF ShellInv, Soundly, OwnGroup, ProcOK, Shell
<1>5. CASE sh.second
    <2>1. jobs' = Append(jobs, JobOf(sh, "stopped")) /\ sh' = Prompt
        BY <1>5 DEF wait_job
    <2>2. Soundly(proc, Append(jobs, JobOf(sh, "stopped")), Prompt, tty)
        BY <1>2, <1>3, <1>4, Tabling
    <2>3. QED
        BY <1>1, <2>1, <2>2 DEF ShellInv
<1>6. CASE ~sh.second /\ sh.pids # <<>>
    <2>1. sh' = Drain(sh, sh.by, 0) /\ UNCHANGED jobs
        BY <1>6 DEF wait_job
    <2>2. Soundly(proc, jobs, Drain(sh, sh.by, 0), tty)
        BY <1>1, <1>2, <1>3, <1>4, Draining
    <2>3. QED
        BY <1>1, <2>1, <2>2 DEF ShellInv
<1>7. CASE ~sh.second /\ sh.pids = <<>>
    <2>1. Soundly(proc, jobs, Prompt, tty)
        BY <1>4, <1>7, Finished
    <2>2. CASE sh.by = "waitall" /\ jobs # <<>>
        <3>1. WaitOn(Tail(jobs), 1, "waitall")
            BY <1>7, <2>2 DEF wait_job
        <3>2. Tail(jobs) = RemoveAt(jobs, 1) /\ 1 \in 1..Len(jobs)
            BY <1>4, <2>2, TailIsRemove DEF GroupsOK
        <3>3. WaitOn(RemoveAt(jobs, 1), 1, "waitall")
            BY <3>1, <3>2, Zenon
        <3>4. QED
            BY <1>1, <1>3, <2>1, <3>2, <3>3, WaitOnInv
    <2>3. CASE ~(sh.by = "waitall" /\ jobs # <<>>)
        BY <1>1, <1>7, <2>1, <2>3 DEF wait_job, ShellInv
    <2>4. QED
        BY <2>2, <2>3
<1>8. QED
    BY <1>5, <1>6, <1>7

LEMMA PollStartInv ==
    ASSUME ShellInv, poll_start
    PROVE  ShellInv'
<1>1. sh = Prompt /\ sh' = PollFrom(jobs, 1) /\ UNCHANGED <<proc, tty, jobs>>
    BY DEF poll_start
<1>2. ShOK(proc, jobs, PollFrom(jobs, 1), tty)
    BY PollStarts DEF ShellInv, Soundly
<1>3. AllFound(proc, jobs, PollFrom(jobs, 1))
    BY <1>1 DEF ShellInv, Soundly, AllFound, Found
<1>4. QED
    BY <1>1, <1>2, <1>3 DEF ShellInv, Soundly

LEMMA PollInv ==
    ASSUME ShellInv, poll_background_jobs
    PROVE  ShellInv'
<1>1. /\ sh.pc = "drain" /\ sh.by = "poll" /\ UNCHANGED <<proc, tty>> /\ jobs' = Polled
      /\ sh' = PollFrom(jobs', IF Len(jobs') < Len(jobs) THEN sh.at ELSE sh.at + 1)
    BY DEF poll_background_jobs, DrainDone
<1>2. DrainOK(proc, jobs, sh, tty) /\ sh # Prompt
    BY <1>1, DrainAtHand
<1>3. GroupsOK(proc, jobs, tty) /\ jobs \in Seq(JobRecord)
    BY DEF ShellInv, Soundly, GroupsOK
<1>4. /\ sh.at \in 1..Len(jobs) /\ jobs[sh.at].pgid = sh.pgid /\ sh.pids \in Seq(Nat) /\ sh.pgid \in Nat
      /\ \A p \in Live(proc) : p \in Pids(jobs[sh.at]) => p \in Pids(sh)
    BY <1>1, <1>2 DEF DrainOK
<1>5. \A p \in Live(proc) : p \in Pids(sh) \/ \E k \in 1..Len(jobs) : k # sh.at /\ p \in Pids(jobs[k])
    BY <1>4 DEF ShellInv, Soundly, AllFound, Found
<1>0. PICK i \in 1..Len(jobs) : i = sh.at
    BY <1>4
<1>6. GroupsOK(proc, jobs', tty) /\ \A p \in Live(proc) : \E k \in 1..Len(jobs') : p \in Pids(jobs'[k])
    <2>1. CASE sh.pids = <<>>
        <3>1. jobs' = RemoveAt(jobs, i)
            BY <1>0, <1>1, <2>1 DEF Polled
        <3>2. Pids(sh) = {}
            BY <2>1, EmptyHasNone
        <3>3. /\ GroupsOK(proc, jobs', tty)
              /\ \A k \in 1..Len(jobs) : k # i => \E l \in 1..Len(jobs') : jobs'[l] = jobs[k]
            <4>1. /\ GroupsOK(proc, RemoveAt(jobs, i), tty)
                  /\ \A k \in 1..Len(jobs) : k # i => \E l \in 1..Len(RemoveAt(jobs, i)) : RemoveAt(jobs, i)[l] = jobs[k]
                BY <1>3, TableRemove, Zenon
            <4>2. QED
                BY <3>1, <4>1
        <3>4. QED
            BY <1>0, <1>5, <3>2, <3>3
    <2>2. CASE sh.pids # <<>>
        <3>1. PICK st : st = JobState(jobs[i].state)
            OBVIOUS
        <3>2. st \in {"running", "stopped"}
            <4>1. jobs[i] \in JobRecord
                BY <1>3, <1>4, ElementOfSeq
            <4>2. QED
                BY <3>1, <4>1 DEF JobState, JobRecord
        <3>3. PICK j : j = JobOf(sh, st)
            OBVIOUS
        <3>4. j \in JobRecord /\ j.pgid = sh.pgid /\ Pids(j) = Pids(sh)
            BY <1>4, <3>2, <3>3, JobOfFields
        <3>5. jobs' = [jobs EXCEPT ![i] = j]
            BY <1>1, <1>3, <1>4, <2>2, <3>1, <1>0, <3>3 DEF Polled
        <3>6. /\ GroupsOK(proc, jobs', tty) /\ Len(jobs') = Len(jobs) /\ jobs'[i] = j
              /\ \A k \in 1..Len(jobs) : k # i => jobs'[k] = jobs[k]
            <4>1. GroupsOK(proc, [jobs EXCEPT ![i] = j], tty) /\ Len([jobs EXCEPT ![i] = j]) = Len(jobs)
                <5>1. j \in JobRecord /\ j.pgid = jobs[i].pgid
                    BY <1>0, <1>4, <3>4
                <5>2. QED
                    BY <1>3, <5>1, TableSet, Zenon
            <4>2. /\ [jobs EXCEPT ![i] = j][i] = j
                  /\ \A k \in 1..Len(jobs) : k # i => [jobs EXCEPT ![i] = j][k] = jobs[k]
                BY <1>3, <1>4
            <4>3. QED
                BY <3>5, <4>1, <4>2
        <3>7. QED
            BY <1>0, <1>4, <1>5, <3>4, <3>6
    <2>3. QED
        BY <2>1, <2>2
<1>7. PICK k : k = IF Len(jobs') < Len(jobs) THEN sh.at ELSE sh.at + 1
    OBVIOUS
<1>8. k \in Nat \ {0}
    BY <1>4, <1>7
<1>9. ShOK(proc, jobs', PollFrom(jobs', k), tty)
    BY <1>6, <1>8, PollStarts
<1>10. AllFound(proc, jobs', PollFrom(jobs', k))
    BY <1>6 DEF AllFound, Found
<1>11. QED
    BY <1>1, <1>6, <1>7, <1>9, <1>10 DEF ShellInv, Soundly

(* The builtins, at the prompt.                                            *)
LEMMA AtPromptFound ==
    ASSUME ShellInv, sh = Prompt
    PROVE  \A p \in Live(proc) : \E k \in 1..Len(jobs) : p \in Pids(jobs[k])
    BY DEF ShellInv, Soundly, AllFound, Found

LEMMA StateSet ==
    ASSUME ShellInv, sh = Prompt, NEW k \in 1..Len(jobs), NEW st \in {"running", "stopped"}
    PROVE  Soundly(proc, [jobs EXCEPT ![k].state = st], Prompt, tty)
<1>1. GroupsOK(proc, jobs, tty) /\ jobs \in Seq(JobRecord)
    BY DEF ShellInv, Soundly, GroupsOK
<1>2. PICK j : j = [jobs[k] EXCEPT !.state = st]
    OBVIOUS
<1>3. jobs[k] \in JobRecord
    BY <1>1, ElementOfSeq
<1>4. j \in JobRecord /\ j.pgid = jobs[k].pgid /\ j.pids = jobs[k].pids
    BY <1>2, <1>3 DEF JobRecord
<1>5. PICK K : K = [jobs EXCEPT ![k] = j]
    OBVIOUS
<1>6. [jobs EXCEPT ![k].state = st] = K
    BY <1>2, <1>5
<1>7. /\ GroupsOK(proc, K, tty) /\ Len(K) = Len(jobs) /\ K[k] = j
      /\ \A l \in 1..Len(jobs) : l # k => K[l] = jobs[l]
    <2>1. GroupsOK(proc, jobs, tty) /\ j \in JobRecord /\ j.pgid = jobs[k].pgid
        BY <1>1, <1>4
    <2>2. /\ GroupsOK(proc, [jobs EXCEPT ![k] = j], tty) /\ Len([jobs EXCEPT ![k] = j]) = Len(jobs)
          /\ [jobs EXCEPT ![k] = j][k] = j
          /\ \A l \in 1..Len(jobs) : l # k => [jobs EXCEPT ![k] = j][l] = jobs[l]
        BY <2>1, TableSet
    <2>3. QED
        BY <1>5, <2>2, Zenon
<1>8. \A l \in 1..Len(jobs) : Pids(K[l]) = Pids(jobs[l])
    BY <1>4, <1>7 DEF Pids
<1>9. AllFound(proc, K, Prompt)
    BY <1>7, <1>8, AtPromptFound DEF AllFound, Found
<1>10. QED
    BY <1>6, <1>7, <1>9 DEF Soundly, ShOK, ShellInv

LEMMA BuiltinInv ==
    ASSUME ShellInv, NEW k \in DOMAIN jobs, bg(k) \/ fg_job(k) \/ kill(k) \/ wait(k)
    PROVE  ShellInv'
<1>1. GroupsOK(proc, jobs, tty) /\ jobs \in Seq(JobRecord) /\ ProcOK(proc)
    BY DEF ShellInv, Soundly, GroupsOK
<1>2. k \in 1..Len(jobs)
    BY <1>1
<1>3. sh = Prompt /\ tty = Shell
    BY DEF bg, fg_job, kill, wait, AtPrompt
<1>4. ASSUME NEW Q, Tames(proc, Q), NEW st \in {"running", "stopped"}
      PROVE  Soundly(Q, [jobs EXCEPT ![k].state = st], Prompt, tty)
    BY <1>2, <1>3, <1>4, StateSet, TamesKeeps
<1>5. CASE bg(k)
    BY <1>1, <1>3, <1>4, <1>5, GroupChanges DEF bg, ShellInv
<1>6. CASE kill(k)
    <2>1. UNCHANGED <<tty, sh>>
        BY <1>6 DEF kill
    <2>2. CASE proc' = OnGroup(jobs[k].pgid, Killed) /\ UNCHANGED jobs
        BY <1>1, <2>1, <2>2, GroupChanges, TamesKeeps DEF ShellInv
    <2>3. CASE proc' = OnGroup(jobs[k].pgid, StoppedChild) /\ jobs' = [jobs EXCEPT ![k].state = "stopped"]
        BY <1>1, <1>3, <1>4, <2>1, <2>3, GroupChanges DEF ShellInv
    <2>4. CASE proc' = OnGroup(jobs[k].pgid, Continued) /\ jobs' = [jobs EXCEPT ![k].state = "running"]
        BY <1>1, <1>3, <1>4, <2>1, <2>4, GroupChanges DEF ShellInv
    <2>5. QED
        BY <1>6, <2>2, <2>3, <2>4 DEF kill
<1>7. CASE fg_job(k)
    <2>1. PICK K : K = RemoveAt(jobs, k)
        OBVIOUS
    <2>2. PICK d : d = Drain(jobs[k], "supervise", 0)
        OBVIOUS
    <2>3. PICK T : T = SetTty(jobs[k].pgid, proc)
        OBVIOUS
    <2>4. jobs' = K /\ tty' = T /\ sh' = d /\ proc' = OnGroup(jobs[k].pgid, Continued)
        BY <1>7, <2>1, <2>2, <2>3 DEF fg_job
    <2>5. /\ GroupsOK(proc, K, tty) /\ OwnGroup(proc, K, jobs[k].pgid)
          /\ \A j \in 1..Len(jobs) : j # k => \E l \in 1..Len(K) : K[l] = jobs[j]
        BY <1>1, <1>2, <2>1, TableRemove
    <2>6. GroupsOK(proc, K, T)
        BY <2>3, <2>5, TtyGiven DEF OwnGroup
    <2>7. jobs[k] \in JobRecord
        BY <1>1, <1>2, ElementOfSeq
    <2>8. d # Prompt /\ Pids(d) = Pids(jobs[k])
        BY <2>2, DrainFields
    <2>9. ShOK(proc, K, d, T)
        BY <2>2, <2>5, <2>7, DrainStarts DEF JobRecord
    <2>10. AllFound(proc, K, d)
        <3>1. SUFFICES ASSUME NEW p \in Live(proc) PROVE Found(p, K, d)
            BY DEF AllFound
        <3>2. PICK j \in 1..Len(jobs) : p \in Pids(jobs[j])
            BY <1>3, AtPromptFound
        <3>3. QED
            BY <2>5, <2>8, <3>2 DEF Found
    <2>11. Soundly(proc, K, d, T)
        BY <1>1, <2>6, <2>9, <2>10 DEF Soundly
    <2>12. Soundly(proc', K, d, T)
        BY <1>1, <2>4, <2>11, GroupChanges, TamesKeeps
    <2>13. QED
        BY <2>4, <2>12 DEF ShellInv
<1>8. CASE wait(k)
    <2>1. WaitOn(RemoveAt(jobs, k), k, "wait") /\ UNCHANGED <<proc, tty>>
        BY <1>8 DEF wait
    <2>2. Soundly(proc, jobs, Prompt, tty)
        BY <1>3 DEF ShellInv
    <2>3. QED
        BY <1>2, <1>3, <2>1, <2>2, WaitOnInv
<1>9. QED
    BY <1>5, <1>6, <1>7, <1>8

LEMMA WaitAllInv ==
    ASSUME ShellInv, wait_all
    PROVE  ShellInv'
<1>1. sh = Prompt /\ tty = Shell /\ jobs # <<>> /\ WaitOn(Tail(jobs), 1, "waitall") /\ UNCHANGED <<proc, tty>>
    BY DEF wait_all, AtPrompt
<1>2. Tail(jobs) = RemoveAt(jobs, 1) /\ 1 \in 1..Len(jobs)
    BY <1>1, TailIsRemove DEF ShellInv, Soundly, GroupsOK
<1>3. WaitOn(RemoveAt(jobs, 1), 1, "waitall")
    BY <1>1, <1>2, Zenon
<1>4. Soundly(proc, jobs, Prompt, tty)
    BY <1>1 DEF ShellInv
<1>5. QED
    BY <1>1, <1>2, <1>3, <1>4, WaitOnInv

LEMMA OutsideInv ==
    ASSUME ShellInv,
           (\E p \in DOMAIN proc : childExits(p) \/ backgroundRead(p) \/ otherContinues(p)) \/ keyStop
    PROVE  ShellInv'
<1>1. UNCHANGED <<tty, jobs, sh>>
    BY DEF childExits, backgroundRead, otherContinues, keyStop, ShellOutside
<1>2. ProcOK(proc)
    BY DEF ShellInv, Soundly
<1>3. Tames(proc, proc')
    BY <1>2, GroupChanges, ChildStep DEF childExits, backgroundRead, otherContinues, keyStop
<1>4. QED
    BY <1>1, <1>3, TamesKeeps DEF ShellInv

LEMMA ShellNextInv ==
    ASSUME ShellInv, [ShellJobsNext]_shellVars
    PROVE  ShellInv'
<1>1. CASE UNCHANGED shellVars
    BY <1>1 DEF shellVars, ShellInv
<1>2. CASE ShellJobsNext
    BY <1>2, ExecuteGroupInv, SpawnStageInv, SpawnFailsInv, SpawnedInv, ReapGroupInv, NormaliseInv, SuperviseInv,
       WaitJobInv, PollStartInv, PollInv, BuiltinInv, WaitAllInv, OutsideInv
       DEF ShellJobsNext, ShellStep
<1>3. QED
    BY <1>1, <1>2

-----------------------------------------------------------------------------
JobTableInv == part = "jobs" => ShellInv

(* The shell's jobs in MCIpc's composition, for every number of jobs and   *)
(* stages: whatever order children stop, continue, read the terminal and   *)
(* exit in while the shell spawns a pipeline, waits for it, polls its jobs *)
(* or runs fg, bg and wait (apps/shell/src/executor.rs), every child that  *)
(* runs or is stopped is in the pipeline at hand or in the job table, and  *)
(* at the prompt no job of the table holds the terminal.                   *)
THEOREM ShellIsSound == MCSpec => []ShellSound
<1>1. MCInit => JobTableInv
    <2>1. MCInit => ShellJobsInit
        BY Zenon DEF MCInit
    <2>2. QED
        BY <2>1, ShellInitInv, Zenon DEF JobTableInv
<1>2. ASSUME JobTableInv, [MCNext]_mcVars
      PROVE  JobTableInv'
    <2>1. part' = part
        BY <1>2 DEF MCNext, mcVars
    <2>2. CASE part = "jobs"
        BY <1>2, <2>1, <2>2, ShellNextInv DEF MCNext, mcVars, shellVars, JobTableInv
    <2>3. QED
        BY <2>1, <2>2 DEF JobTableInv
<1>3. JobTableInv => ShellSound
    BY ShellInvSound DEF JobTableInv, ShellSound
<1>4. QED
    BY <1>1, <1>2, <1>3, PTL DEF MCSpec
=============================================================================
