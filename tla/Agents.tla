------------------------------- MODULE Agents -------------------------------
(***************************************************************************)
(* Agent identities (tools/agents.py, identity.py, tools/_common.py): the  *)
(* tables agents and agent_aliases.  Every tool call is one atomic step,   *)
(* which is what TxnRetry shows of the transaction it runs in.             *)
(*                                                                         *)
(* Directories are moved away and back, and links left in their place.  An *)
(* operation is given the canonical path that its agent_cwd leads to; a    *)
(* name that is left out stands for the directory's own.  What no other    *)
(* table and no other tool looks at (workstream, description, timestamps)  *)
(* is left out.                                                            *)
(***************************************************************************)
EXTENDS Naturals

CONSTANTS Ids,      \* the ULIDs agents may get
          Paths,
          Movable,  \* bound: those whose directory may be moved away and back, or linked
          Names,
          NULL

ASSUME AgentsAssumption ==
    /\ NULL \notin Ids /\ NULL \notin [name : Names, home : Paths, deleted : BOOLEAN]
    /\ Movable \subseteq Paths

VARIABLES agents,      \* the row of each agent: its name, whether deleted_at is set, and
                       \* its earliest alias
          aliases,     \* agent_aliases: the agent of each path
          minted,      \* the ULIDs new_ulid has returned
          directories, \* the paths at which there is a directory, not a link
          leads        \* the path each path leads to: its own, unless it is a link

tables == <<agents, aliases, minted>>
identity == <<tables, directories, leads>>

Row == [name : Names, home : Paths, deleted : BOOLEAN]

AgentsInit == /\ agents = [a \in Ids |-> NULL]
              /\ aliases = [p \in Paths |-> NULL]
              /\ minted = {}
              /\ directories = Paths
              /\ leads = [p \in Paths |-> p]

\* Path(agent_cwd).resolve() follows links, whether or not anything is found there.
Canonical(p) == leads[p]
Called == {Canonical(p) : p \in Paths}

Exists(a) == agents[a] # NULL
Active(a) == Exists(a) /\ ~ agents[a].deleted

\* resolve_agent_id: with include_deleted it reads the alias alone.
ResolveAny(p) == aliases[p]
Resolve(p) == IF aliases[p] # NULL /\ Active(aliases[p]) THEN aliases[p] ELSE NULL

\* Most tools insist that their agent_cwd is a directory (canonicalize_agent_cwd);
\* the lifecycle tools look its path up only (require_exists=False).
Caller(p) == IF p \in directories THEN Resolve(p) ELSE NULL

\* Mutant of Register: a name that is left out is not replaced by the directory's.
RegisterNameless(p, n) ==
    /\ p \in directories /\ ResolveAny(p) = NULL
    /\ \E a \in Ids \ minted :
         /\ agents' = [agents EXCEPT ![a] = [name |-> NULL, home |-> p, deleted |-> FALSE]]
         /\ aliases' = [aliases EXCEPT ![p] = a]
         /\ minted' = minted \cup {a}
    /\ UNCHANGED <<directories, leads>>

\* agent_register of a path nobody owns.  Repeated, it keeps the identity and its
\* name; for a soft-deleted agent it raises.
Register(p, n) ==
    /\ p \in directories /\ ResolveAny(p) = NULL
    /\ \E a \in Ids \ minted :
         /\ agents' = [agents EXCEPT ![a] = [name |-> n, home |-> p, deleted |-> FALSE]]
         /\ aliases' = [aliases EXCEPT ![p] = a]
         /\ minted' = minted \cup {a}
    /\ UNCHANGED <<directories, leads>>

\* Mutants of CanAddAlias: it looks for an active owner of the new path only, or
\* insists that there still is a directory at the old one.
CanAliasPurged(p, q) == Resolve(p) # NULL /\ q \in directories /\ Resolve(q) = NULL
CanAliasFromDirectory(p, q) == Caller(p) # NULL /\ q \in directories /\ ResolveAny(q) = NULL

\* agent_add_alias; a path some agent owns, be it soft-deleted, stays with it.
CanAddAlias(p, q) == Resolve(p) # NULL /\ q \in directories /\ ResolveAny(q) = NULL
AddAlias(p, q) ==
    /\ CanAddAlias(p, q)
    /\ aliases' = [aliases EXCEPT ![q] = Resolve(p)]
    /\ UNCHANGED <<agents, minted, directories, leads>>

Rename(p, n) == /\ Resolve(p) # NULL
                /\ agents' = [agents EXCEPT ![Resolve(p)].name = n]
                /\ UNCHANGED <<aliases, minted, directories, leads>>

SoftPurge(p) == /\ Resolve(p) # NULL
                /\ agents' = [agents EXCEPT ![Resolve(p)].deleted = TRUE]
                /\ UNCHANGED <<aliases, minted, directories, leads>>

CanUnpurge(p) == ResolveAny(p) # NULL /\ Exists(ResolveAny(p)) /\ ~ Active(ResolveAny(p))
Unpurge(p) == /\ CanUnpurge(p)
              /\ agents' = [agents EXCEPT ![ResolveAny(p)].deleted = FALSE]
              /\ UNCHANGED <<aliases, minted, directories, leads>>

\* Mutant of HardPurge: foreign keys are not enforced, so nothing cascades.
HardPurgeKeepingAliases(p) ==
    /\ ResolveAny(p) # NULL /\ Exists(ResolveAny(p))
    /\ agents' = [agents EXCEPT ![ResolveAny(p)] = NULL]
    /\ UNCHANGED <<aliases, minted, directories, leads>>

\* The agent's row goes, and with it (on delete cascade) all of its aliases.  The
\* rows of the other tables are deleted by the modules that have them.
HardPurge(p) ==
    /\ ResolveAny(p) # NULL /\ Exists(ResolveAny(p))
    /\ agents' = [agents EXCEPT ![ResolveAny(p)] = NULL]
    /\ aliases' = [q \in Paths |-> IF aliases[q] = aliases[p] THEN NULL ELSE aliases[q]]
    /\ UNCHANGED <<minted, directories, leads>>

\* The user moves a directory away from a path, or to it; what stood there instead,
\* a link perhaps, is gone.
MoveDirectory(p) ==
    /\ p \in Movable
    /\ directories' \in {directories \ {p}, directories \cup {p}}
    /\ leads' = [leads EXCEPT ![p] = p]
    /\ UNCHANGED tables

\* The user leaves a link in place of a directory, or re-targets it.  Bound: no link
\* leads to another one.
LinkDirectory(p, q) ==
    /\ p \in Movable /\ q # p
    /\ Canonical(q) = q /\ \A r \in Paths \ {p} : Canonical(r) # p
    /\ directories' = directories \ {p}
    /\ leads' = [leads EXCEPT ![p] = q]
    /\ UNCHANGED tables

\* The operations that touch no other table.
IdentityStep == \/ \E p \in Called : \/ \E n \in Names : Register(p, n) \/ Rename(p, n)
                                      \/ \E q \in Called : AddAlias(p, q)
                                      \/ SoftPurge(p) \/ Unpurge(p)
                \/ \E p \in Paths : MoveDirectory(p) \/ \E q \in Paths : LinkDirectory(p, q)
-----------------------------------------------------------------------------
\* No link leads to another one, and a directory is no link.
PathsLead == /\ leads \in [Paths -> Paths] /\ \A p \in Called : Canonical(p) = p
             /\ directories \subseteq Called

AgentsTypeOK == /\ agents \in [Ids -> Row \cup {NULL}]
                /\ aliases \in [Paths -> Ids \cup {NULL}]
                /\ minted \subseteq Ids
                /\ PathsLead

\* One directory, one agent, both ways: no alias leads to an agent that is gone
\* (agent_register would then answer for nobody), the path agent_list shows of an
\* agent leads to it, and a ULID is never used twice.
IdentitiesHold == /\ \A p \in Paths : aliases[p] # NULL => Exists(aliases[p])
                  /\ \A a \in Ids : Exists(a) => aliases[agents[a].home] = a
                  /\ \A a \in Ids : Exists(a) => a \in minted

\* No agent is stranded by a directory that went away: called with the path that
\* agent_list shows of it, agent_add_alias gives an active agent any directory nobody
\* owns, and agent_unpurge restores a soft-deleted one.  Unless a link stands at that
\* path: canonicalize_agent_cwd follows it even for a lookup, so that until the link
\* is removed no path leads to the one the agent is filed under.
IsLink(p) == Canonical(p) # p
AgentsCanMove ==
    \A a \in Ids : Exists(a) /\ ~ IsLink(agents[a].home) =>
        \E p \in {Canonical(agents[a].home)} :
            IF Active(a)
            THEN Resolve(p) = a /\ \A q \in directories : ResolveAny(q) = NULL => CanAddAlias(p, q)
            ELSE ResolveAny(p) = a /\ CanUnpurge(p)

\* A path changes hands only over a hard purge of its agent, whatever is
\* registered, aliased, soft-purged and restored in whichever order.
PathsKeepTheirAgent ==
    [][\A p \in Paths : aliases[p] # NULL /\ aliases'[p] # aliases[p]
           => agents'[aliases[p]] = NULL]_tables
=============================================================================
