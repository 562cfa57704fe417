---------------------------- MODULE CommonProofs ----------------------------
(***************************************************************************)
(* Proofs about what all tools share (tools/_common.py): what the identity *)
(* operations keep, for any agents, paths and names; and one page of a     *)
(* listing, for any finite set of rows, any limit and any keys that the    *)
(* listing's order tells apart.  The proofs of the inbox and of the work   *)
(* items build on these facts.                                             *)
(***************************************************************************)
EXTENDS Agents, Keyset, FiniteSetTheorems, WellFoundedInduction, TLAPS

-----------------------------------------------------------------------------
(* Agents and their paths.                                                 *)

\* What agents and agent_aliases go through, whatever the other tables do.
IdentityMoves == \/ IdentityStep
                 \/ \E p \in Paths : HardPurge(p)
                 \/ UNCHANGED identity

\* The paths tools are called with are paths, and stay so while nothing is moved.
LEMMA CalledArePaths ==
    ASSUME AgentsTypeOK
    PROVE  Called \subseteq Paths /\ directories \subseteq Paths
  BY DEF AgentsTypeOK, PathsLead, Called, Canonical

LEMMA PathsStay ==
    ASSUME AgentsTypeOK, UNCHANGED <<directories, leads>>
    PROVE  PathsLead'
  BY DEF AgentsTypeOK, PathsLead, Called, Canonical

LEMMA ResolveFacts ==
    ASSUME AgentsTypeOK, IdentitiesHold, NEW p \in Paths
    PROVE  /\ ResolveAny(p) = aliases[p]
           /\ aliases[p] # NULL => aliases[p] \in Ids /\ Exists(aliases[p])
           /\ Resolve(p) # NULL => Resolve(p) = aliases[p] /\ Active(Resolve(p))
                                   /\ Resolve(p) \in Ids
           /\ Resolve(p) = NULL => aliases[p] = NULL \/ ~ Active(aliases[p])
  BY DEF AgentsTypeOK, IdentitiesHold, ResolveAny, Resolve

\* Who calls from a directory is whom its path resolves to.
LEMMA CallerFacts ==
    ASSUME AgentsTypeOK, IdentitiesHold, NEW p \in Paths, Caller(p) # NULL
    PROVE  /\ Caller(p) = Resolve(p) /\ Caller(p) = aliases[p]
           /\ Caller(p) \in Ids /\ Active(Caller(p)) /\ Exists(Caller(p))
  BY ResolveFacts DEF Caller, Active

\* Each identity operation keeps the types and the relation of agents and paths.
LEMMA RegisterKeeps ==
    ASSUME AgentsTypeOK, IdentitiesHold, NEW p \in Paths, NEW n \in Names, Register(p, n)
    PROVE  AgentsTypeOK' /\ IdentitiesHold'
<1>1. PICK a \in Ids \ minted :
         /\ agents' = [agents EXCEPT ![a] = [name |-> n, home |-> p, deleted |-> FALSE]]
         /\ aliases' = [aliases EXCEPT ![p] = a]
         /\ minted' = minted \cup {a}
         /\ UNCHANGED <<directories, leads>>
  BY DEF Register
<1>2. ~ Exists(a) /\ aliases[p] = NULL
  BY DEF Register, ResolveAny, IdentitiesHold, Exists
<1>3. AgentsTypeOK'
  BY <1>1, PathsStay DEF AgentsTypeOK, Row
<1>4. [name |-> n, home |-> p, deleted |-> FALSE] # NULL
  <2>1. [name |-> n, home |-> p, deleted |-> FALSE] \in [name : Names, home : Paths, deleted : BOOLEAN]
    OBVIOUS
  <2> QED
    BY <2>1, AgentsAssumption
<1>5. Exists(a)' /\ \A b \in Ids : b # a => (Exists(b)' <=> Exists(b))
  BY <1>1, <1>4 DEF AgentsTypeOK, Exists
<1>6. \A q \in Paths : aliases'[q] # NULL => agents'[aliases'[q]] # NULL
  BY <1>1, <1>5 DEF AgentsTypeOK, IdentitiesHold, Exists
<1>7. \A b \in Ids : Exists(b)' => aliases'[agents'[b].home] = b
  <2> SUFFICES ASSUME NEW b \in Ids, Exists(b)' PROVE aliases'[agents'[b].home] = b
    OBVIOUS
  <2>1. CASE b = a
    BY <2>1, <1>1 DEF AgentsTypeOK
  <2>2. CASE b # a
    <3>1. /\ Exists(b) /\ agents'[b] = agents[b] /\ aliases[agents[b].home] = b
          /\ agents[b].home \in Paths
      BY <2>2, <1>1, <1>5 DEF IdentitiesHold, AgentsTypeOK, Exists, Row
    <3>2. agents[b].home # p
      BY <3>1, <1>2, AgentsAssumption
    <3> QED
      BY <3>1, <3>2, <1>1 DEF AgentsTypeOK
  <2> QED
    BY <2>1, <2>2
<1>8. \A b \in Ids : Exists(b)' => b \in minted'
  BY <1>1, <1>5 DEF IdentitiesHold
<1> QED
  BY <1>3, <1>6, <1>7, <1>8 DEF IdentitiesHold, Exists

LEMMA AddAliasKeeps ==
    ASSUME AgentsTypeOK, IdentitiesHold, NEW p \in Paths, NEW q \in Paths, AddAlias(p, q)
    PROVE  AgentsTypeOK' /\ IdentitiesHold'
<1>1. /\ Resolve(p) \in Ids /\ Exists(Resolve(p)) /\ aliases[q] = NULL
      /\ aliases' = [aliases EXCEPT ![q] = Resolve(p)]
      /\ agents' = agents /\ minted' = minted
      /\ UNCHANGED <<directories, leads>>
  BY ResolveFacts DEF AddAlias, CanAddAlias, ResolveAny, Active
<1>2. AgentsTypeOK'
  BY <1>1, PathsStay DEF AgentsTypeOK
<1>3. \A r \in Paths : aliases'[r] # NULL => agents'[aliases'[r]] # NULL
  BY <1>1 DEF AgentsTypeOK, IdentitiesHold, Exists
<1>4. \A a \in Ids : Exists(a)' => aliases'[agents'[a].home] = a
  <2> SUFFICES ASSUME NEW a \in Ids, Exists(a) PROVE aliases'[agents[a].home] = a
    BY <1>1 DEF Exists
  <2>1. aliases[agents[a].home] = a /\ agents[a].home \in Paths
    BY DEF IdentitiesHold, AgentsTypeOK, Exists, Row
  <2>2. agents[a].home # q
    BY <2>1, <1>1, AgentsAssumption
  <2> QED
    BY <2>1, <2>2, <1>1 DEF AgentsTypeOK
<1> QED
  BY <1>1, <1>2, <1>3, <1>4 DEF IdentitiesHold, Exists

\* Rename, soft purge and unpurge overwrite a row that is there.
LEMMA RowUpdateKeeps ==
    ASSUME AgentsTypeOK, IdentitiesHold, NEW a \in Ids, Exists(a), NEW row \in Row,
           row.home = agents[a].home,
           agents' = [agents EXCEPT ![a] = row], UNCHANGED <<aliases, minted, directories, leads>>
    PROVE  AgentsTypeOK' /\ IdentitiesHold'
<1>1. row # NULL
  BY AgentsAssumption DEF Row
<1>2. \A b \in Ids : /\ Exists(b)' <=> Exists(b)
                    /\ agents'[b].home = agents[b].home
  BY <1>1 DEF AgentsTypeOK, Exists
<1>3. AgentsTypeOK'
  BY PathsStay DEF AgentsTypeOK
<1> QED
  BY <1>2, <1>3 DEF IdentitiesHold, AgentsTypeOK, Exists

LEMMA RenameKeeps ==
    ASSUME AgentsTypeOK, IdentitiesHold, NEW p \in Paths, NEW n \in Names, Rename(p, n)
    PROVE  AgentsTypeOK' /\ IdentitiesHold'
<1>1. Resolve(p) \in Ids /\ Exists(Resolve(p))
  BY ResolveFacts DEF Rename, Active
<1>2. agents[Resolve(p)] \in Row
  BY <1>1 DEF AgentsTypeOK, Exists
<1>3. /\ [agents[Resolve(p)] EXCEPT !.name = n] \in Row
      /\ [agents[Resolve(p)] EXCEPT !.name = n].home = agents[Resolve(p)].home
  BY <1>2 DEF Row
<1> DEFINE row == [agents[Resolve(p)] EXCEPT !.name = n]
<1>4. agents' = [agents EXCEPT ![Resolve(p)] = row] /\ UNCHANGED <<aliases, minted, directories, leads>>
  BY DEF Rename
<1> HIDE DEF row
<1> QED
  BY <1>1, <1>3, <1>4, RowUpdateKeeps DEF row

LEMMA DeletedKeeps ==
    ASSUME AgentsTypeOK, IdentitiesHold, NEW p \in Paths, SoftPurge(p) \/ Unpurge(p)
    PROVE  AgentsTypeOK' /\ IdentitiesHold'
<1>1. PICK a \in Ids, deleted \in BOOLEAN :
         /\ Exists(a) /\ agents' = [agents EXCEPT ![a].deleted = deleted]
         /\ UNCHANGED <<aliases, minted, directories, leads>>
  BY ResolveFacts DEF SoftPurge, Unpurge, CanUnpurge, Active
<1>2. agents[a] \in Row
  BY <1>1 DEF AgentsTypeOK, Exists
<1>3. /\ [agents[a] EXCEPT !.deleted = deleted] \in Row
      /\ [agents[a] EXCEPT !.deleted = deleted].home = agents[a].home
  BY <1>2 DEF Row
<1> QED
  BY <1>1, <1>3, RowUpdateKeeps

LEMMA HardPurgeKeeps ==
    ASSUME AgentsTypeOK, IdentitiesHold, NEW p \in Paths, HardPurge(p)
    PROVE  AgentsTypeOK' /\ IdentitiesHold'
<1>1. /\ aliases[p] \in Ids /\ minted' = minted
      /\ UNCHANGED <<directories, leads>>
      /\ agents' = [agents EXCEPT ![aliases[p]] = NULL]
      /\ aliases' = [q \in Paths |-> IF aliases[q] = aliases[p] THEN NULL ELSE aliases[q]]
  BY ResolveFacts DEF HardPurge, ResolveAny
<1>2. AgentsTypeOK'
  BY <1>1, PathsStay DEF AgentsTypeOK
<1>3. \A a \in Ids : Exists(a)' <=> Exists(a) /\ a # aliases[p]
  BY <1>1 DEF AgentsTypeOK, Exists
<1>4. \A q \in Paths : aliases'[q] # NULL => aliases'[q] = aliases[q] /\ aliases[q] # aliases[p]
  BY <1>1
<1>5. \A q \in Paths : aliases'[q] # NULL => agents'[aliases'[q]] # NULL
  BY <1>3, <1>4 DEF AgentsTypeOK, IdentitiesHold, Exists
<1>6. \A a \in Ids : Exists(a)' => aliases'[agents'[a].home] = a
  BY <1>1, <1>3 DEF IdentitiesHold, AgentsTypeOK, Exists, Row
<1>7. \A a \in Ids : Exists(a)' => a \in minted'
  BY <1>1, <1>3 DEF IdentitiesHold
<1> QED
  BY <1>2, <1>5, <1>6, <1>7 DEF IdentitiesHold, Exists

\* A directory or a link that replaces what stood at a path.
LEMMA MoveKeeps ==
    ASSUME AgentsTypeOK, IdentitiesHold, NEW p \in Paths,
           MoveDirectory(p) \/ \E q \in Paths : LinkDirectory(p, q)
    PROVE  AgentsTypeOK' /\ IdentitiesHold'
<1>1. agents' = agents /\ aliases' = aliases /\ minted' = minted
  BY DEF MoveDirectory, LinkDirectory, tables
<1>2. /\ leads \in [Paths -> Paths] /\ \A r \in Paths : leads[leads[r]] = leads[r]
      /\ \A r \in directories : r \in Paths /\ leads[r] = r
  BY DEF AgentsTypeOK, PathsLead, Called, Canonical
<1>3. SUFFICES PathsLead'
  BY <1>1 DEF AgentsTypeOK, IdentitiesHold, Exists
<1>4. SUFFICES /\ leads' \in [Paths -> Paths] /\ \A r \in Paths : leads'[leads'[r]] = leads'[r]
               /\ \A r \in directories' : r \in Paths /\ leads'[r] = r
  BY DEF PathsLead, Called, Canonical
<1>5. CASE MoveDirectory(p)
  <2>1. leads' = [leads EXCEPT ![p] = p] /\ directories' \subseteq directories \cup {p}
    BY <1>5 DEF MoveDirectory
  <2> QED
    BY <1>2, <2>1
<1>6. CASE \E q \in Paths : LinkDirectory(p, q)
  <2>1. PICK q \in Paths : LinkDirectory(p, q)
    BY <1>6
  <2>2. /\ q # p /\ leads[q] = q /\ \A r \in Paths \ {p} : leads[r] # p
        /\ leads' = [leads EXCEPT ![p] = q] /\ directories' = directories \ {p}
    BY <2>1 DEF LinkDirectory, Canonical
  <2> QED
    BY <1>2, <2>2
<1> QED
  BY <1>5, <1>6

\* Whatever happens to identities keeps the types and the relation.
THEOREM IdentityKept ==
    ASSUME AgentsTypeOK, IdentitiesHold, IdentityMoves
    PROVE  AgentsTypeOK' /\ IdentitiesHold'
<1>1. CASE IdentityStep
  BY <1>1, CalledArePaths, RegisterKeeps, AddAliasKeeps, RenameKeeps, DeletedKeeps, MoveKeeps
     DEF IdentityStep
<1>2. CASE \E p \in Paths : HardPurge(p)
  BY <1>2, HardPurgeKeeps
<1>3. CASE UNCHANGED identity
  BY <1>3, PathsStay DEF identity, tables, AgentsTypeOK, IdentitiesHold, Exists
<1> QED
  BY <1>1, <1>2, <1>3 DEF IdentityMoves

\* Nobody goes but by a hard purge, which takes its agent and nobody else.
LEMMA WhoExists ==
    ASSUME AgentsTypeOK, IdentitiesHold, NEW a \in Ids
    PROVE  /\ IdentityStep /\ Exists(a) => Exists(a)'
           /\ \A p \in Paths : HardPurge(p) => /\ aliases[p] \in Ids
                                              /\ Exists(a)' <=> Exists(a) /\ a # aliases[p]
<1>1. ASSUME Exists(a), NEW p \in Paths, NEW n \in Names, Register(p, n)
      PROVE  Exists(a)'
  BY <1>1 DEF Register, Exists, IdentitiesHold, AgentsTypeOK
<1>2. ASSUME Exists(a), NEW p \in Paths, NEW n \in Names, Rename(p, n)
      PROVE  Exists(a)'
  <2>1. PICK b \in Ids : Exists(b) /\ agents' = [agents EXCEPT ![b].name = n]
    BY <1>2, ResolveFacts DEF Rename, Active
  <2>2. agents[b] \in Row
    BY <2>1 DEF AgentsTypeOK, Exists
  <2>3. [agents[b] EXCEPT !.name = n] \in Row /\ NULL \notin Row
    BY <2>2, AgentsAssumption DEF Row
  <2> QED
    BY <1>2, <2>1, <2>3 DEF AgentsTypeOK, Exists
<1>3. ASSUME Exists(a), NEW p \in Paths, NEW q \in Paths, AddAlias(p, q)
      PROVE  Exists(a)'
  BY <1>3 DEF AddAlias, Exists
<1>4. ASSUME NEW p \in Paths, HardPurge(p)
      PROVE  /\ aliases[p] \in Ids
             /\ Exists(a)' <=> Exists(a) /\ a # aliases[p]
  BY <1>4, ResolveFacts DEF HardPurge, ResolveAny, AgentsTypeOK, Exists
<1>5. ASSUME Exists(a), NEW p \in Paths, SoftPurge(p) \/ Unpurge(p)
      PROVE  Exists(a)'
  <2>1. PICK b \in Ids, deleted \in BOOLEAN :
           Exists(b) /\ agents' = [agents EXCEPT ![b].deleted = deleted]
    BY <1>5, ResolveFacts DEF SoftPurge, Unpurge, CanUnpurge, Active
  <2>2. agents[b] \in Row
    BY <2>1 DEF AgentsTypeOK, Exists
  <2>3. [agents[b] EXCEPT !.deleted = deleted] \in Row /\ NULL \notin Row
    BY <2>2, AgentsAssumption DEF Row
  <2> QED
    BY <1>5, <2>1, <2>3 DEF AgentsTypeOK, Exists
<1>6. ASSUME Exists(a), NEW p \in Paths,
             MoveDirectory(p) \/ \E q \in Paths : LinkDirectory(p, q)
      PROVE  Exists(a)'
  BY <1>6 DEF MoveDirectory, LinkDirectory, tables, Exists
<1> QED
  BY CalledArePaths, <1>1, <1>2, <1>3, <1>4, <1>5, <1>6 DEF IdentityStep

\* The tables begin in order.
LEMMA IdentityStarts == AgentsInit => AgentsTypeOK /\ IdentitiesHold
  BY DEF AgentsInit, AgentsTypeOK, PathsLead, Called, Canonical, IdentitiesHold, Exists

\* A path changes hands only over the hard purge of its agent.
THEOREM PathsKept ==
    ASSUME AgentsTypeOK, IdentitiesHold, IdentityMoves
    PROVE  \A p \in Paths : aliases[p] # NULL /\ aliases'[p] # aliases[p]
               => agents'[aliases[p]] = NULL
<1> SUFFICES ASSUME NEW p \in Paths, aliases[p] # NULL, aliases'[p] # aliases[p]
             PROVE  agents'[aliases[p]] = NULL
  OBVIOUS
<1>1. CASE \E q \in Paths, n \in Names : Register(q, n) \/ Rename(q, n)
  BY <1>1 DEF Register, Rename, ResolveAny, AgentsTypeOK
<1>2. CASE \E q, r \in Paths : AddAlias(q, r)
  BY <1>2 DEF AddAlias, CanAddAlias, ResolveAny, AgentsTypeOK
<1>3. CASE \E q \in Paths : \/ SoftPurge(q) \/ Unpurge(q) \/ MoveDirectory(q)
                            \/ \E r \in Paths : LinkDirectory(q, r)
  BY <1>3 DEF SoftPurge, Unpurge, MoveDirectory, LinkDirectory, tables
<1>4. CASE \E q \in Paths : HardPurge(q)
  <2>1. PICK q \in Paths : HardPurge(q)
    BY <1>4
  <2>2. aliases[p] = aliases[q] /\ aliases[q] \in Ids
    BY <2>1, ResolveFacts DEF HardPurge, ResolveAny
  <2> QED
    BY <2>1, <2>2 DEF HardPurge, ResolveAny, AgentsTypeOK
<1>5. CASE UNCHANGED identity
  BY <1>5 DEF identity, tables
<1> QED
  BY CalledArePaths, <1>1, <1>2, <1>3, <1>4, <1>5 DEF IdentityMoves, IdentityStep

\* Unless a link stands at its home, an agent that exists is found by its home's path,
\* be there a directory or not: to be given any directory nobody owns, or to be restored.
THEOREM NobodyIsStranded ==
    ASSUME AgentsTypeOK, IdentitiesHold
    PROVE  AgentsCanMove
<1> SUFFICES ASSUME NEW a \in Ids, Exists(a), Canonical(agents[a].home) = agents[a].home
             PROVE  LET p == agents[a].home
                    IN  IF Active(a)
                        THEN /\ Resolve(p) = a
                             /\ \A q \in directories : ResolveAny(q) = NULL => CanAddAlias(p, q)
                        ELSE ResolveAny(p) = a /\ CanUnpurge(p)
  BY DEF AgentsCanMove, IsLink
<1>1. aliases[agents[a].home] = a
  BY DEF IdentitiesHold
<1>2. a # NULL
  BY AgentsAssumption
<1>3. CASE Active(a)
  BY <1>1, <1>2, <1>3 DEF CanAddAlias, Resolve, ResolveAny
<1>4. CASE ~ Active(a)
  BY <1>1, <1>2, <1>4 DEF CanUnpurge, ResolveAny
<1> QED
  BY <1>3, <1>4

-----------------------------------------------------------------------------
(* Pages.                                                                  *)

\* The listing's order is a strict total order of the keys in T; no key is the
\* cursor of a reading that has not begun.
Ordered(T) == /\ <<>> \notin T
              /\ \A t \in T : ~ Precedes(t, t)
              /\ \A t, u, v \in T : Precedes(t, u) /\ Precedes(u, v) => Precedes(t, v)
              /\ \A t, u \in T : t = u \/ Precedes(t, u) \/ Precedes(u, t)

\* One number as a key, as in the lists that are ordered by time.
LEMMA PrecedesOne ==
    ASSUME NEW k \in Int, NEW l \in Int
    PROVE  Precedes(<<k>>, <<l>>) <=> k < l
<1>1. Len(<<l>>) = 1 /\ <<k>>[1] = k /\ <<l>>[1] = l
  OBVIOUS
<1>2. 1 .. Len(<<l>>) = {1} /\ 1 .. 1 - 1 = {}
  BY <1>1
<1>3. Precedes(<<k>>, <<l>>) <=> <<k>>[1] < <<l>>[1] /\ \A j \in 1 .. 1 - 1 : <<k>>[j] = <<l>>[j]
  BY <1>2 DEF Precedes
<1> QED
  BY <1>1, <1>2, <1>3

\* A pair as a key, as in the lists ranked by priority.
LEMMA PrecedesTwo ==
    ASSUME NEW k \in Int, NEW l \in Int, NEW m \in Int, NEW n \in Int
    PROVE  Precedes(<<k, l>>, <<m, n>>) <=> k < m \/ (k = m /\ l < n)
<1> DEFINE t == <<k, l>>
           c == <<m, n>>
<1>1. /\ Len(c) = 2 /\ t[1] = k /\ t[2] = l /\ c[1] = m /\ c[2] = n
  OBVIOUS
<1>2. 1 .. Len(c) = {1, 2} /\ 1 .. 1 - 1 = {} /\ 1 .. 2 - 1 = {1}
  BY <1>1
<1> HIDE DEF t, c
<1>3. Precedes(t, c) <=> \/ t[1] < c[1] /\ \A j \in 1 .. 1 - 1 : t[j] = c[j]
                         \/ t[2] < c[2] /\ \A j \in 1 .. 2 - 1 : t[j] = c[j]
  BY <1>2 DEF Precedes
<1>4. Precedes(t, c) <=> t[1] < c[1] \/ (t[2] < c[2] /\ t[1] = c[1])
  BY <1>2, <1>3
<1> QED
  BY <1>1, <1>4 DEF t, c

LEMMA OnesOrdered ==
    ASSUME NEW K, K \subseteq Int
    PROVE  Ordered({<<k>> : k \in K})
<1>1. \A k, l \in K : Precedes(<<k>>, <<l>>) <=> k < l
  BY PrecedesOne
<1>2. \A k, l \in K : <<k>> = <<l>> <=> k = l
  OBVIOUS
<1>3. \A k \in K : <<>> # <<k>>
  OBVIOUS
<1> QED
  BY <1>1, <1>2, <1>3 DEF Ordered

LEMMA PairsOrdered ==
    ASSUME NEW T, \A t \in T : \E r, k \in Int : t = <<r, k>>
    PROVE  Ordered(T)
<1>1. <<>> \notin T
  OBVIOUS
<1>2. \A t \in T : \E r, k \in Int : t = <<r, k>>
  OBVIOUS
<1>3. ASSUME NEW t \in T PROVE ~ Precedes(t, t)
  <2>1. PICK r \in Int, k \in Int : t = <<r, k>>
    BY <1>2
  <2>2. Precedes(<<r, k>>, <<r, k>>) <=> r < r \/ (r = r /\ k < k)
    BY PrecedesTwo
  <2> QED
    BY <2>1, <2>2
<1>4. ASSUME NEW t \in T, NEW u \in T, NEW v \in T, Precedes(t, u), Precedes(u, v)
      PROVE  Precedes(t, v)
  <2>1. PICK r1 \in Int, k1 \in Int : t = <<r1, k1>>
    BY <1>2
  <2>2. PICK r2 \in Int, k2 \in Int : u = <<r2, k2>>
    BY <1>2
  <2>3. PICK r3 \in Int, k3 \in Int : v = <<r3, k3>>
    BY <1>2
  <2>4. r1 < r2 \/ (r1 = r2 /\ k1 < k2)
    BY <1>4, <2>1, <2>2, PrecedesTwo
  <2>5. r2 < r3 \/ (r2 = r3 /\ k2 < k3)
    BY <1>4, <2>2, <2>3, PrecedesTwo
  <2>6. r1 < r3 \/ (r1 = r3 /\ k1 < k3)
    BY <2>4, <2>5
  <2> QED
    BY <2>1, <2>3, <2>6, PrecedesTwo
<1>5. ASSUME NEW t \in T, NEW u \in T
      PROVE  t = u \/ Precedes(t, u) \/ Precedes(u, t)
  <2>1. PICK r1 \in Int, k1 \in Int : t = <<r1, k1>>
    BY <1>2
  <2>2. PICK r2 \in Int, k2 \in Int : u = <<r2, k2>>
    BY <1>2
  <2>3. \/ r1 = r2 /\ k1 = k2
        \/ r1 < r2 \/ (r1 = r2 /\ k1 < k2)
        \/ r2 < r1 \/ (r2 = r1 /\ k2 < k1)
    OBVIOUS
  <2>4. Precedes(t, u) <=> r1 < r2 \/ (r1 = r2 /\ k1 < k2)
    BY <2>1, <2>2, PrecedesTwo
  <2>5. Precedes(u, t) <=> r2 < r1 \/ (r2 = r1 /\ k2 < k1)
    BY <2>1, <2>2, PrecedesTwo
  <2> QED
    BY <2>1, <2>2, <2>3, <2>4, <2>5
<1> QED
  BY <1>1, <1>3, <1>4, <1>5 DEF Ordered

\* Every row of S has a key in T, and a key of its own.
Keyed(S, key, T) == /\ \A r \in S : key[r] \in T
                    /\ \A r, q \in S : key[r] = key[q] => r = q

\* What a page that ends at c has passed.
Passed(t, c) == t = c \/ Precedes(c, t)

Before(S, key, r) == {q \in S : Precedes(key[r], key[q])}

LEMMA Least ==
    ASSUME NEW C, C \subseteq Nat, C # {}
    PROVE  \E m \in C : \A x \in C : m <= x
<1> DEFINE R == OpToRel(<, Nat)
<1>1. IsWellFoundedOn(R, Nat)
  BY NatLessThanWellFounded
<1>2. \A x, y \in Nat : y < x => <<y, x>> \in R
  BY DEF OpToRel
<1> HIDE DEF R
<1>3. PICK m \in C : \A x \in C : <<x, m>> \notin R
  BY <1>1, WFMin
<1>4. \A x \in C : ~ (x < m)
  BY <1>2, <1>3
<1> QED
  BY <1>4

\* A row further down has more rows before it.
LEMMA BeforeGrows ==
    ASSUME NEW T, Ordered(T), NEW S, IsFiniteSet(S), NEW key, Keyed(S, key, T),
           NEW r \in S, NEW q \in S, Precedes(key[q], key[r])
    PROVE  /\ Cardinality(Before(S, key, r)) \in Nat
           /\ Cardinality(Before(S, key, q)) \in Nat
           /\ Cardinality(Before(S, key, r)) < Cardinality(Before(S, key, q))
<1>1. Before(S, key, r) \in SUBSET Before(S, key, q)
  BY DEF Ordered, Keyed, Before
<1>2. r \in Before(S, key, q) /\ r \notin Before(S, key, r)
  BY DEF Ordered, Keyed, Before
<1>3. IsFiniteSet(Before(S, key, q)) /\ IsFiniteSet(Before(S, key, r))
  <2>1. Before(S, key, q) \in SUBSET S /\ Before(S, key, r) \in SUBSET S
    BY DEF Before
  <2> QED
    BY <2>1, FS_Subset
<1>4. /\ Cardinality(Before(S, key, r)) <= Cardinality(Before(S, key, q))
      /\ Cardinality(Before(S, key, r)) # Cardinality(Before(S, key, q))
  BY <1>1, <1>2, <1>3, FS_Subset
<1>5. Cardinality(Before(S, key, r)) \in Nat /\ Cardinality(Before(S, key, q)) \in Nat
  BY <1>3, FS_CardinalityType
<1> QED
  BY <1>4, <1>5

\* A listing that is not empty has a first row and a last one.
LEMMA Ends ==
    ASSUME NEW T, Ordered(T), NEW S, IsFiniteSet(S), S # {}, NEW key, Keyed(S, key, T)
    PROVE  /\ \E r \in S : Before(S, key, r) = {}
           /\ \E r \in S : \A q \in S : q = r \/ Precedes(key[r], key[q])
<1> DEFINE place(r) == Cardinality(Before(S, key, r))
<1>1. \A r \in S : place(r) \in Nat /\ place(r) <= Cardinality(S)
  <2>1. \A r \in S : Before(S, key, r) \in SUBSET S
    BY DEF Before
  <2> QED
    BY <2>1, FS_Subset, FS_CardinalityType
<1>2. Cardinality(S) \in Nat
  BY FS_CardinalityType
<1>3. \E r \in S : Before(S, key, r) = {}
  <2> DEFINE places == {place(r) : r \in S}
  <2>1. places \in SUBSET Nat /\ places # {}
    BY <1>1
  <2> HIDE DEF places
  <2>2. PICK m \in places : \A x \in places : m <= x
    BY <2>1, Least
  <2>3. PICK r \in S : m = place(r)
    BY DEF places
  <2>4. \A q \in S : place(r) <= place(q)
    BY <2>2, <2>3 DEF places
  <2>5. \A q \in S : ~ Precedes(key[r], key[q])
    <3> SUFFICES ASSUME NEW q \in S, Precedes(key[r], key[q]) PROVE FALSE
      OBVIOUS
    <3>1. place(q) \in Nat /\ place(r) \in Nat /\ place(q) < place(r)
      BY BeforeGrows
    <3>2. place(r) <= place(q)
      BY <2>4
    <3> HIDE DEF place
    <3> QED
      BY <3>1, <3>2
  <2> QED
    BY <2>5 DEF Before
<1>4. \E r \in S : \A q \in S : q = r \/ Precedes(key[r], key[q])
  <2> DEFINE gaps == {Cardinality(S) - place(r) : r \in S}
  <2>1. gaps \in SUBSET Nat /\ gaps # {}
    <3>1. \A r \in S : Cardinality(S) - place(r) \in Nat
      <4> HIDE DEF place
      <4> QED
        BY <1>1, <1>2
    <3> QED
      BY <3>1
  <2> HIDE DEF gaps
  <2>2. PICK m \in gaps : \A x \in gaps : m <= x
    BY <2>1, Least
  <2>3. PICK r \in S : m = Cardinality(S) - place(r)
    BY DEF gaps
  <2>4. \A q \in S : Cardinality(S) - place(r) <= Cardinality(S) - place(q)
    BY <2>2, <2>3 DEF gaps
  <2>5. \A q \in S : ~ Precedes(key[q], key[r])
    <3> SUFFICES ASSUME NEW q \in S, Precedes(key[q], key[r]) PROVE FALSE
      OBVIOUS
    <3>1. place(q) \in Nat /\ place(r) \in Nat /\ place(r) < place(q)
      BY BeforeGrows
    <3>2. Cardinality(S) - place(r) <= Cardinality(S) - place(q)
      BY <2>4
    <3> HIDE DEF place
    <3> QED
      BY <3>1, <3>2, <1>2
  <2> QED
    BY <2>5 DEF Ordered, Keyed
<1> QED
  BY <1>3, <1>4

\* The first n rows: not empty unless the listing is, and closed upwards.
LEMMA TopFacts ==
    ASSUME NEW T, Ordered(T), NEW S, IsFiniteSet(S), NEW key, Keyed(S, key, T),
           NEW n \in Nat \ {0}
    PROVE  /\ Top(S, key, n) \subseteq S
           /\ S # {} => Top(S, key, n) # {}
           /\ \A r \in Top(S, key, n), q \in S : Precedes(key[r], key[q]) => q \in Top(S, key, n)
<1>1. \A r \in S : r \in Top(S, key, n) <=> Cardinality(Before(S, key, r)) < n
  BY DEF Top, Before
<1>2. Top(S, key, n) \subseteq S
  BY DEF Top
<1>3. ASSUME S # {} PROVE Top(S, key, n) # {}
  <2>1. PICK r \in S : Before(S, key, r) = {}
    BY <1>3, Ends
  <2>2. Cardinality(Before(S, key, r)) = 0
    BY <2>1, FS_EmptySet
  <2> QED
    BY <1>1, <2>2
<1>4. ASSUME NEW r \in Top(S, key, n), NEW q \in S, Precedes(key[r], key[q])
      PROVE  q \in Top(S, key, n)
  <2>1. r \in S /\ Cardinality(Before(S, key, r)) < n
    BY <1>1, <1>2
  <2>2. /\ Cardinality(Before(S, key, q)) \in Nat /\ Cardinality(Before(S, key, r)) \in Nat
        /\ Cardinality(Before(S, key, q)) < Cardinality(Before(S, key, r))
    BY <2>1, <1>4, BeforeGrows
  <2> QED
    BY <1>1, <2>1, <2>2
<1> QED
  BY <1>2, <1>3, <1>4

\* A page, "next" after "reading": it gives some of the rest, namely all of it or
\* all up to the new cursor, which is the key of one of its rows.
Page(next, reading, rest, rows, key) ==
    /\ next.got = reading.got \cup rows
    /\ next.again = (reading.again \/ rows \cap reading.got # {})
    /\ next = [more |-> next.more, cursor |-> next.cursor, got |-> next.got, again |-> next.again]
    /\ next.more \in BOOLEAN
    /\ ~ next.more => rows = rest /\ next.cursor = <<>>
    /\ next.more => /\ \E r \in rows : next.cursor = key[r]
                    /\ \A r \in rest : r \in rows <=> Passed(key[r], next.cursor)

\* One page of a listing skips nothing and promises another only if there is one:
\* what Fetch (inbox_check and every list tool) gives is a page in this sense.
THEOREM PageIsExact ==
    ASSUME NEW T, Ordered(T), NEW S, IsFiniteSet(S), NEW key, Keyed(S, key, T),
           NEW n \in Nat \ {0}, NEW reading, reading.cursor \in T \cup {<<>>}
    PROVE  \E rows \in SUBSET After(S, key, reading.cursor) :
             Page(Fetch(reading, S, key, n), reading, After(S, key, reading.cursor), rows, key)
<1> DEFINE rest == After(S, key, reading.cursor)
           rows == Top(rest, key, n)
           next == Fetch(reading, S, key, n)
<1>1. rest \in SUBSET S
  BY DEF After
<1>2. IsFiniteSet(rest) /\ Keyed(rest, key, T)
  BY <1>1, FS_Subset DEF Keyed
<1>3. next = [more |-> rest # rows,
              cursor |-> IF rest = rows THEN <<>> ELSE key[LastOf(rows, key)],
              got |-> reading.got \cup rows,
              again |-> reading.again \/ rows \cap reading.got # {}]
  BY DEF Fetch
<1> HIDE DEF rest, next
<1>4. /\ rows \subseteq rest
      /\ rest # {} => rows # {}
      /\ \A r \in rows, q \in rest : Precedes(key[r], key[q]) => q \in rows
  BY <1>2, TopFacts
<1> HIDE DEF rows
<1>5. CASE rest = rows
  <2>1. next.more = FALSE /\ next.cursor = <<>>
    BY <1>3, <1>5
  <2> QED
    BY <1>3, <1>4, <1>5, <2>1 DEF rest, next, Page
<1>6. CASE rest # rows
  <2> DEFINE last == LastOf(rows, key)
  <2>1. IsFiniteSet(rows) /\ Keyed(rows, key, T) /\ rows # {}
    BY <1>2, <1>4, <1>6, FS_Subset DEF Keyed
  <2>2. last \in rows /\ \A q \in rows : q = last \/ Precedes(key[last], key[q])
    <3>1. \E r \in rows : \A q \in rows : q = r \/ Precedes(key[r], key[q])
      BY <2>1, Ends
    <3> QED
      BY <3>1 DEF LastOf
  <2> HIDE DEF last
  <2>3. next.more = TRUE /\ next.cursor = key[last]
    BY <1>3, <1>6 DEF last
  <2>4. key[last] \in T
    BY <2>1, <2>2 DEF Keyed
  <2>5. \A r \in rest : r \in rows <=> Passed(key[r], key[last])
    BY <1>2, <1>4, <2>2 DEF Passed, Keyed
  <2>6. /\ next = [more |-> next.more, cursor |-> next.cursor, got |-> next.got, again |-> next.again]
        /\ next.got = reading.got \cup rows
        /\ next.again = (reading.again \/ rows \cap reading.got # {})
    BY <1>3
  <2> QED
    BY <1>4, <2>2, <2>3, <2>5, <2>6 DEF rest, next, Page
<1> QED
  BY <1>5, <1>6
-----------------------------------------------------------------------------
(* Readings.                                                               *)

\* A reading of which "due" was listed all the while, over rows that have the
\* keys key[r] in T: what it has given lies up to its cursor, and what is due up
\* to its cursor was given, or everything that is due at its end.
Sound(reading, due, rows, key, T) ==
    /\ reading.cursor \in T \cup {<<>>}
    /\ ~ reading.again
    /\ ~ reading.more => due \subseteq reading.got
    /\ reading.more /\ reading.cursor = <<>> => reading.got = {}
    /\ reading.more /\ reading.cursor # <<>> =>
         /\ \A r \in reading.got \cap rows : Passed(key[r], reading.cursor)
         /\ \A r \in due : Passed(key[r], reading.cursor) => r \in reading.got

\* A reading that has been given some of S.
Onward(next, reading, S) ==
    /\ next.more \in BOOLEAN /\ next.again \in BOOLEAN
    /\ next = [more |-> next.more, cursor |-> next.cursor, got |-> next.got, again |-> next.again]
    /\ next.got \subseteq reading.got \cup S

\* One more page keeps a reading sound.  The listing S may have keys for its own
\* rows only; rows that were given and are hidden at the moment keep theirs.
THEOREM PageKeepsSound ==
    ASSUME NEW T, Ordered(T), NEW rows, NEW key, Keyed(rows, key, T),
           NEW S \in SUBSET rows, IsFiniteSet(S), NEW own, \A r \in S : own[r] = key[r],
           NEW n \in Nat \ {0}, NEW due \in SUBSET S,
           NEW reading, reading.more, Sound(reading, due, rows, key, T),
           NEW next, next = Fetch(reading, S, own, n)
    PROVE  Sound(next, due, rows, key, T) /\ Onward(next, reading, S)
<1> DEFINE rest == After(S, own, reading.cursor)
<1>1. Keyed(S, own, T)
  BY DEF Keyed
<1>2. /\ reading.cursor \in T \cup {<<>>} /\ ~ reading.again
      /\ reading.cursor = <<>> => reading.got = {}
      /\ reading.cursor # <<>> =>
           /\ \A r \in reading.got \cap rows : Passed(key[r], reading.cursor)
           /\ \A r \in due : Passed(key[r], reading.cursor) => r \in reading.got
  BY DEF Sound
<1>3. PICK page \in SUBSET rest : Page(next, reading, rest, page, own)
  BY <1>1, <1>2, PageIsExact
<1>4. /\ rest \in SUBSET S
      /\ \A r \in S : r \in rest <=> reading.cursor = <<>> \/ Precedes(key[r], reading.cursor)
  BY DEF After
<1> HIDE DEF rest
<1>5. /\ next.got = reading.got \cup page
      /\ next.again = (reading.again \/ page \cap reading.got # {})
      /\ next.more \in BOOLEAN
      /\ next = [more |-> next.more, cursor |-> next.cursor, got |-> next.got, again |-> next.again]
      /\ ~ next.more => page = rest /\ next.cursor = <<>>
  BY <1>3 DEF Page
<1>6. next.more => /\ \E r \in page : next.cursor = key[r]
                   /\ \A r \in rest : r \in page <=> Passed(key[r], next.cursor)
  BY <1>3, <1>4 DEF Page
<1>7. \A r \in rows : key[r] \in T
  BY DEF Keyed
<1>8. \A r \in due \ rest : r \in reading.got
  BY <1>2, <1>4, <1>7 DEF Ordered, Passed
<1>9. page \cap reading.got = {}
  <2> SUFFICES ASSUME NEW r \in page, r \in reading.got PROVE FALSE
    OBVIOUS
  <2>1. r \in rows /\ reading.cursor # <<>>
    BY <1>2, <1>4
  <2>2. Passed(key[r], reading.cursor) /\ Precedes(key[r], reading.cursor)
    BY <1>2, <1>4, <2>1
  <2> QED
    BY <1>2, <1>7, <2>1, <2>2 DEF Ordered, Passed
<1>10. next.again = FALSE
  BY <1>2, <1>5, <1>9
<1>11. ~ next.more => due \subseteq next.got
  BY <1>5, <1>8
<1>12. next.more => next.cursor \in T /\ next.cursor # <<>>
  BY <1>4, <1>6, <1>7 DEF Ordered
<1>13. ASSUME next.more, NEW r \in next.got \cap rows
       PROVE  Passed(key[r], next.cursor)
  <2>1. CASE r \in page
    BY <1>6, <1>13, <2>1
  <2>2. CASE r \in reading.got
    <3>1. reading.cursor # <<>> /\ Passed(key[r], reading.cursor)
      BY <1>2, <1>13, <2>2
    <3>2. PICK q \in page : next.cursor = key[q]
      BY <1>6, <1>13
    <3>3. Precedes(key[q], reading.cursor) /\ q \in rows
      BY <1>4, <3>1
    <3> QED
      BY <1>2, <1>7, <3>1, <3>2, <3>3 DEF Ordered, Passed
  <2> QED
    BY <1>5, <1>13, <2>1, <2>2
<1>14. ASSUME next.more, NEW r \in due, Passed(key[r], next.cursor)
       PROVE  r \in next.got
  BY <1>5, <1>6, <1>8, <1>14
<1>15. Sound(next, due, rows, key, T)
  BY <1>5, <1>10, <1>11, <1>12, <1>13, <1>14 DEF Sound
<1>16. page \in SUBSET S
  BY <1>4
<1> QED
  BY <1>5, <1>10, <1>15, <1>16 DEF Onward

\* Between two pages rows may go from what is due, and rows that change their keys
\* or lose them from what counts as given; the reading stays sound.
LEMMA WaitKeepsSound ==
    ASSUME NEW T, NEW rows, NEW key, NEW reading, NEW due, Sound(reading, due, rows, key, T),
           NEW rows2, NEW key2, NEW reading2, NEW due2 \in SUBSET due,
           reading2.cursor = reading.cursor, reading2.again = reading.again,
           reading2.more = reading.more, reading2.got \subseteq reading.got,
           due2 \cap reading.got \subseteq reading2.got,
           \A r \in reading2.got \cap rows2 : r \in rows /\ key2[r] = key[r],
           \A r \in due2 : key2[r] = key[r]
    PROVE  Sound(reading2, due2, rows2, key2, T)
  BY DEF Sound
=============================================================================
