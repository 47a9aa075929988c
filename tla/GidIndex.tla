------------------------------ MODULE GidIndex ------------------------------
(***************************************************************************)
(* The choice of the GID a port is addressed by (src/src/net_ib.cc,        *)
(* ncclIbGetGidIndex).  A GID is reduced to what the choice asks of it:    *)
(* the tests on its 128 bits are fields of the entry.  A version that      *)
(* sysfs does not tell is an uninitialised variable, so that the choice is *)
(* a set: the indices the code may end with.                               *)
(***************************************************************************)
EXTENDS Integers, Sequences

\* An entry of a port's GID table.
\*   read    ibv_query_gid succeeds
\*   fam     getGidAddrFamily: 4 for a mapped IPv4 address, 6 otherwise
\*   valid   validGid: configured and not link-local
\*   subnet  matchGidAddrPrefix: within NCCL_IB_ADDR_RANGE (always, without it)
\*   ver     what ncclIbRoceGetVersionNum reads in sysfs, 0 if it cannot and
\*           NoVersion if what it reads is neither version
\*   flid    ncclIbExtractFlid is not zero
NoVersion == 3
Gid == [read : BOOLEAN, fam : {4, 6}, valid : BOOLEAN, subnet : BOOLEAN,
        ver : 0 .. NoVersion, flid : BOOLEAN]

\* What the user asks for: NCCL_IB_GID_INDEX (0 by default, negative for a
\* search), NCCL_IB_ADDR_FAMILY, NCCL_IB_ROCE_VERSION_NUM and
\* NCCL_IB_ROUTABLE_FLID_GID_INDEX.
UserGid == [index : Int, fam : {4, 6}, ver : 1 .. 2, routable : Nat]

\* The calls return an error instead of an index.
GidError == -1

\* Index i of a table, counted from 0 as in the code.
Entry(table, i) == table[i + 1]

\* What *version holds after ncclIbRoceGetVersionNum: without a version what
\* it held before, either version or (3) any other number.
Versions(g) == IF g.ver = NoVersion THEN 1 .. 3 ELSE {g.ver}

\* Mutant: a valid entry is never given up for one of the right version.
KeepsValidVersion(g, v, w, user) == ~g.valid /\ w = user.ver

\* A candidate of the right family and version w is better than an entry of
\* that family and version v.
BetterVersion(g, v, w, user) == (v # w \/ ~g.valid) /\ w = user.ver

\* ncclUpdateGidIndex: the index after candidate cand was compared with cur.
UpdateGidIndex(table, user, cur, cand) ==
    LET g == Entry(table, cur)
        c == Entry(table, cand)
    IN  IF ~g.read \/ ~c.read THEN {GidError}
        ELSE IF c.fam # g.fam /\ c.fam = user.fam /\ c.subnet THEN {cand}
        ELSE IF c.fam # user.fam \/ ~c.valid \/ ~c.subnet THEN {cur}
        ELSE IF g.ver = 0 \/ c.ver = 0 THEN {GidError}
        ELSE {IF BetterVersion(g, v, w, user) THEN cand ELSE cur :
                 v \in Versions(g), w \in Versions(c)}

\* The search goes through the table once; an error ends it.  best[n] is the
\* choice after the first n entries, entry 0 before any is compared.
SearchGidIndex(table, user) ==
    LET best[n \in 0 .. Len(table)] ==
            IF n <= 1 THEN {0}
            ELSE UNION {IF i = GidError THEN {GidError}
                        ELSE UpdateGidIndex(table, user, i, n - 1) :
                            i \in best[n - 1]}
    IN  best[Len(table)]

\* ncclIbGetGidIndex
GetGidIndex(link, table, user) ==
    IF link = "IB"
    THEN IF user.routable >= Len(table) THEN {0}
         ELSE IF ~Entry(table, user.routable).read THEN {GidError}
         ELSE IF Entry(table, user.routable).flid THEN {user.routable} ELSE {0}
    ELSE IF user.index >= 0 THEN {user.index} ELSE SearchGidIndex(table, user)

\* ibv_query_gid of the index that was chosen
CanQuery(table, i) == i \in 0 .. Len(table) - 1 /\ Entry(table, i).read

-----------------------------------------------------------------------------

\* What a search is for: an entry of the family and version asked for, within
\* the range, that can be routed.
Usable(g, user) == g.fam = user.fam /\ g.valid /\ g.subnet /\ g.ver = user.ver

\* An entry that is taken for one: its version is right or unknown.
Passes(g, user) == /\ g.fam = user.fam /\ g.valid /\ g.subnet
                   /\ user.ver \in Versions(g)

\* The search may look at nothing but entry 0 once it holds this.
Settled(g, user) == g.fam = user.fam /\ g.valid /\ user.ver \in Versions(g)

\* Index i is the first usable one after entry 0, and none is before it whose
\* version is unknown.
FirstUsable(table, user, i) ==
    /\ i \in 1 .. Len(table) - 1
    /\ Usable(Entry(table, i), user)
    /\ \A k \in 1 .. i - 1 : ~Passes(Entry(table, k), user)
=============================================================================
