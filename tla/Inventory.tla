------------------------------ MODULE Inventory ------------------------------
(***************************************************************************)
(* The accepted entries of all sources (identity.py, service.py), and the  *)
(* checks that a configuration makes of them (assignments.py,              *)
(* inventory.py).                                                          *)
(*                                                                         *)
(* Sources are refreshed and reconciled by hand, and the configuration is  *)
(* changed, one at a time under the mutation lock; a refused operation     *)
(* changes nothing.  A source may offer any of its feeds at any time.      *)
(* Fetching, the validation by Xray and the publication on disk are other  *)
(* modules' matter.                                                        *)
(***************************************************************************)
EXTENDS Identity, Sequences

CONSTANTS
    Sources,
    Feeds,     \* what each source may offer: sets of batches
    Restored,  \* the registries with which an installation may begin
    Configs,   \* configurations
    First      \* the one that is loaded first

ASSUME FeedsAssumption == \A s \in Sources : Feeds[s] \subseteq Seq(Keys) /\ None \notin Feeds[s]
ASSUME ConfigsAssumption ==
    First \in Configs /\ \A cfg \in Configs : DOMAIN cfg.sources \subseteq Sources
\* What is restored was the registry of an installation: an entry has one source.
ASSUME RestoredAssumption ==
    \A registry \in Restored :
        /\ DOMAIN registry = Sources
        /\ \A s \in Sources :
              /\ DOMAIN registry[s] \subseteq EntryIds /\ Range(registry[s]) \subseteq Rows
              /\ \A x \in Sources \ {s} : DOMAIN registry[s] \cap DOMAIN registry[x] = {}

(***************************************************************************)
(* A configuration has sources (whether each is enabled), sets (of target  *)
(* sets, of each source), defaults, targetSets (whether each is enabled),  *)
(* limit (max_active_runtimes) and rules, a sequence of records: entries,  *)
(* source, names, sets, enabled, mode, selection and lifecycle.  A rule    *)
(* without entries selects by source and by name, which stands for all     *)
(* that a filter can look at; selection stands for the tags of a profile.  *)
(***************************************************************************)

VARIABLES
    config,      \* the live configuration
    identity,    \* the registry: the rows of each source
    generations, \* the accepted entries of each source, by id, or None
    compiled,    \* inventory: the checks, by id
    repeat       \* history: the feed that was last accepted, when it was automatically

inventoryVars == <<config, identity, generations, compiled, repeat>>

-----------------------------------------------------------------------------
\* The position of the first of these rules, or 0
Earliest(hits) == IF hits = {} THEN 0 ELSE Min(hits)

Selects(rule, s, key) ==
    /\ rule.entries = {}
    /\ rule.source \in {None, s}
    /\ key.name \in rule.names

\* resolve_assignment(): a rule for this very entry, else the first that selects
\* it, else the target sets of its source, else the default ones
Resolve(cfg, s, id, key) ==
    LET explicit == Earliest({i \in DOMAIN cfg.rules : id \in cfg.rules[i].entries})
        general == Earliest({i \in DOMAIN cfg.rules : Selects(cfg.rules[i], s, key)})
        rule == IF explicit # 0 THEN explicit ELSE general
    IN IF rule # 0 THEN cfg.rules[rule]
       ELSE [sets |-> IF cfg.sets[s] # {} THEN cfg.sets[s] ELSE cfg.defaults, enabled |-> TRUE,
             mode |-> "connection", selection |-> None, lifecycle |-> None]

\* The checks that are to be made of these entries
Definitions(cfg, gens) ==
    UNION {UNION {
        LET rule == Resolve(cfg, s, id, gens[s][id])
        IN {[id |-> <<id, rule.mode, t, rule.selection>>, entry |-> id, source |-> s, set |-> t,
             lifecycle |-> rule.lifecycle, profile |-> <<id, rule.mode, rule.selection>>,
             enabled |-> /\ cfg.sources[s] /\ gens[s][id].state = "on"
                         /\ rule.enabled /\ cfg.targetSets[t]]
            : t \in rule.sets \cap DOMAIN cfg.targetSets}
        : id \in {x \in DOMAIN gens[s] : gens[s][x].state # "unsupported"}} : s \in {x \in DOMAIN cfg.sources : gens[x] # None}}

\* compile_inventory(): a check takes the place of another with its id.
Compile(cfg, gens) ==
    LET all == Definitions(cfg, gens)
    IN [i \in {d.id : d \in all} |-> CHOOSE d \in all : d.id = i]

\* The profiles that keep a runtime leave one for the others.
Fits(cfg, inv) ==
    LET enabled == {d \in Range(inv) : d.enabled}
        persistent == {d.profile : d \in {x \in enabled : x.lifecycle = "persistent"}}
    IN /\ Cardinality(persistent) <= cfg.limit
       /\ (\E d \in enabled : d.lifecycle = "fresh") => Cardinality(persistent) < cfg.limit

-----------------------------------------------------------------------------
Ids(registry, who) == UNION {DOMAIN registry[s] : s \in who}
Unused == EntryIds \ Ids(identity, Sources)

InventoryTypeOK ==
    /\ config \in Configs
    /\ DOMAIN identity = Sources /\ DOMAIN generations = Sources /\ DOMAIN repeat = Sources
    /\ \A s \in Sources :
          /\ DOMAIN identity[s] \subseteq EntryIds /\ Range(identity[s]) \subseteq Rows
          /\ generations[s] # None =>
                DOMAIN generations[s] \subseteq EntryIds /\ Range(generations[s]) \subseteq Keys
          /\ repeat[s] \in Feeds[s] \cup {None}

InventoryInit ==
    /\ config = First
    /\ identity \in Restored
    /\ generations = [s \in Sources |-> None]
    /\ compiled = Compile(First, generations)
    /\ repeat = [s \in Sources |-> None]

\* Entries become the live ones of a source, unless their checks do not fit; when
\* nothing has changed, only the registry is replaced.
Accept(s, batch, entry, auto) ==
    LET entries == [i \in Range(entry) |-> batch[CHOOSE c \in DOMAIN batch : entry[c] = i]]
        gens == [generations EXCEPT ![s] = entries]
        inv == Compile(config, gens)
        registry == [identity EXCEPT ![s] = Applied(@, batch, entry)]
    IN
    /\ \/ generations[s] = entries /\ UNCHANGED <<generations, compiled>>
       \/ /\ generations[s] # entries /\ Fits(config, inv)
          /\ generations' = gens /\ compiled' = inv
    /\ identity' = [x \in Sources |-> Pruned(registry[x])]
    /\ repeat' = [repeat EXCEPT ![s] = IF auto THEN batch ELSE None]
    /\ UNCHANGED config

\* refresh_source()
RefreshSource(s, batch) ==
    LET matching == Matching(identity[s], batch) IN
    /\ s \in DOMAIN config.sources
    /\ matching.conflicts = {}
    /\ \E entry \in Assignments(matching, batch, Unused) : Accept(s, batch, entry, TRUE)

\* reconcile_source(), with whatever mapping is sent
ReconcileSource(s, batch, entry) ==
    /\ s \in DOMAIN config.sources
    /\ MappingAllowed(batch, entry, Ids(identity, Sources \ {s}))
    /\ Accept(s, batch, entry, FALSE)

\* _apply_config(): sources that are gone take their entries with them, and leave
\* their rows in the registry.
ApplyConfig(cfg) ==
    LET gens == [s \in Sources |-> IF s \in DOMAIN cfg.sources THEN generations[s] ELSE None] IN
    /\ cfg # config /\ Fits(cfg, Compile(cfg, gens))
    /\ config' = cfg
    /\ generations' = gens /\ compiled' = Compile(cfg, gens)
    /\ repeat' = [s \in Sources |-> IF s \in DOMAIN cfg.sources THEN repeat[s] ELSE None]
    /\ UNCHANGED identity

InventoryNext ==
    \/ \E s \in Sources : \E batch \in Feeds[s] :
          \/ RefreshSource(s, batch)
          \/ \E entry \in [DOMAIN batch -> EntryIds] : ReconcileSource(s, batch, entry)
    \/ \E cfg \in Configs : ApplyConfig(cfg)

InventorySpec == InventoryInit /\ [][InventoryNext]_inventoryVars

-----------------------------------------------------------------------------
\* Every target set that a rule gives to an entry is checked: no check is lost to
\* another one with the same id, in this source or another, whatever was refreshed,
\* restored or mapped by hand.
NoCheckLost ==
    \A s \in DOMAIN config.sources : generations[s] # None =>
        \A i \in {x \in DOMAIN generations[s] : generations[s][x].state # "unsupported"} :
            \A t \in Resolve(config, s, i, generations[s][i]).sets \cap DOMAIN config.targetSets :
                \E d \in Range(compiled) : d.source = s /\ d.entry = i /\ d.set = t

\* A source that was accepted without a question and has not changed keeps its
\* entries: none of them is taken for another or for a new one, whatever rows
\* earlier entries, other sources and mappings by hand have left behind.  And it is
\* accepted again without a question, unless it is of the kind that cannot be told
\* apart once it is known, though each of its entries was new.
RepeatAccepted ==
    \A s \in Sources : \A batch \in Feeds[s] : batch = repeat[s] =>
        LET matching == Matching(identity[s], batch)
        IN /\ matching.new = {}
           /\ \A p \in matching.pairs : generations[s][p[2]] = batch[p[1]]
           /\ matching.conflicts = {} <=> Distinguishable(batch)

\* A refresh never gives the entry of an id that the source provides to anything
\* else while that id is still there, nor two entries the same id.
ExternalIdKept ==
    [][\A s \in Sources :
          repeat'[s] # None /\ generations[s] # None /\ generations'[s] # None =>
          \A i \in DOMAIN generations[s] : \A j \in DOMAIN generations'[s] :
              generations[s][i].external # None /\ generations'[s][j].external = generations[s][i].external
                  => i = j]_inventoryVars
=============================================================================
