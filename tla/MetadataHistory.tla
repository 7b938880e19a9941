---------------------------- MODULE MetadataHistory ----------------------------
(***************************************************************************)
(* Which retained metadata generation a reader is pinned to                *)
(* (otmp/src/reader/selection.rs), and a table of the runtime              *)
(* (otmp/src/runtime/history.rs).                                          *)
(*                                                                         *)
(* `h' is what the store holds: HEAD's generation and semantic commit, the *)
(* generations with their physical parents, and the commits with their     *)
(* semantic parents.  A physical parent may be several commits older, or   *)
(* another image of the same commit.  References are content hashes; a     *)
(* commit's state is named by the commit.                                  *)
(***************************************************************************)
EXTENDS Integers, FiniteSets

None == "none"
Current == -1

(* What a history is made of: everything that is referred to is in the     *)
(* store.                                                                  *)
HistoryShape(h) ==
    /\ IsFiniteSet(DOMAIN h.generations) /\ h.head \in DOMAIN h.generations
    /\ IsFiniteSet(DOMAIN h.commits) /\ h.commit \in DOMAIN h.commits
    /\ 0 \notin DOMAIN h.generations \cup DOMAIN h.commits
    /\ \A g \in DOMAIN h.generations :
        /\ h.generations[g].version \in Nat
        /\ h.generations[g].parent \in DOMAIN h.generations \cup {0}
    /\ \A c \in DOMAIN h.commits :
        /\ h.commits[c].version \in Nat
        /\ h.commits[c].parent \in DOMAIN h.commits \cup {0}

Selected(generation, commit) == [error |-> None, generation |-> generation, commit |-> commit]
NotSelected(error) == [error |-> error, generation |-> 1, commit |-> 0]

(* validate_commit: the commit is of the runtime's profile, its hash is    *)
(* that of its body, and it has the version and state expected of it.      *)
ValidCommit(h, c, version, state) ==
    h.commits[c].sound /\ h.commits[c].version = version /\ c = state

(* Mutant: the walk goes on from the commit it started with.               *)
FromTheSameCommit(start, ancestor) == start

(* The commit the walk goes on from.                                       *)
FromAncestor(start, ancestor) == ancestor

(* From commit c back, one version at a time, to the state of generation p *)
(* (0 if the semantic links do not lead there).                            *)
SemanticAncestor(h, c, p) ==
    LET parent == h.generations[p]
        back[x \in DOMAIN h.commits] ==
          LET a == h.commits[x].parent
          IN  IF a = 0 THEN 0
              ELSE IF h.commits[a].version + 1 # h.commits[x].version \/ a # h.commits[x].previous THEN 0
              ELSE IF h.commits[a].version = parent.version
              THEN IF a = parent.commit /\ ValidCommit(h, a, parent.version, parent.state)
                   THEN FromAncestor(c, a) ELSE 0
              ELSE IF ValidCommit(h, a, h.commits[a].version, a) THEN back[a] ELSE 0
    IN  back[c]

(* One turn of the loop over physical parents.  `at' is where the walk is: *)
(* a generation and the commit it was reached with.                        *)
NextParent(h, wanted, at) ==
    LET generation == h.generations[at.generation]
        p == generation.parent
        parent == h.generations[p]
        ancestor == SemanticAncestor(h, at.commit, p)
    IN  IF at.outcome # "walking" THEN at
        ELSE IF at.generation \in at.seen THEN [at EXCEPT !.outcome = "corrupt"]
        ELSE IF generation.version = wanted THEN [at EXCEPT !.outcome = None]
        ELSE IF p = 0 THEN [at EXCEPT !.outcome = "history not retained"]
        ELSE IF ~parent.sound \/ parent.version > generation.version
                \/ (parent.version = generation.version
                    /\ (parent.commit # generation.commit \/ parent.state # generation.state))
        THEN [at EXCEPT !.outcome = "corrupt"]
        ELSE IF parent.version < wanted THEN [at EXCEPT !.outcome = "history not retained"]
        ELSE IF parent.version = generation.version
        THEN [at EXCEPT !.generation = p, !.seen = @ \cup {at.generation}]
        ELSE IF ancestor = 0 THEN [at EXCEPT !.outcome = "corrupt"]
        ELSE [at EXCEPT !.generation = p, !.commit = ancestor, !.seen = @ \cup {at.generation}]

(* The loop: no generation is visited twice.                               *)
Walk(h, wanted) ==
    LET begin == [generation |-> h.head, commit |-> h.commit, seen |-> {}, outcome |-> "walking"]
        turn[n \in 0..Cardinality(DOMAIN h.generations)] ==
          {NextParent(h, wanted, at) : at \in IF n = 0 THEN {begin} ELSE turn[n - 1]}
        end == CHOOSE at \in turn[Cardinality(DOMAIN h.generations)] : TRUE
    IN  IF end.outcome = None THEN Selected(end.generation, end.commit) ELSE NotSelected(end.outcome)

(* resolve: HEAD, its generation and its commit agree, and the wanted      *)
(* version ("current" is HEAD's) is not ahead of HEAD.                     *)
SelectMetadata(h, wanted) ==
    LET head == h.generations[h.head]
        version == IF wanted = Current THEN h.version ELSE wanted
    IN  IF version > h.version THEN NotSelected("version not found")
        ELSE IF ~head.sound \/ head.version # h.version \/ head.commit # h.commit \/ head.state # h.commit
        THEN NotSelected("corrupt")
        ELSE IF ~ValidCommit(h, head.commit, head.version, head.state) THEN NotSelected("corrupt")
        ELSE Walk(h, version)

-----------------------------------------------------------------------------
(* The same selection by the runtime (runtime/history.rs), which pins      *)
(* every generation it passes and does not walk the semantic parents       *)
(* between them.                                                           *)

(* load_pin_objects: the generation and its commit agree.                  *)
Loads(h, g) ==
    LET generation == h.generations[g]
    IN  generation.sound /\ ValidCommit(h, generation.commit, generation.version, generation.state)

(* validate_generation_edge.                                               *)
ValidEdge(h, child, parent, seen) ==
    LET old == h.generations[parent]
        new == h.generations[child]
    IN  /\ parent \notin seen
        /\ old.version <= new.version
        /\ old.version = new.version => old.state = new.state /\ old.commit = new.commit

(* One turn of the loop of select_metadata, with load_parent.              *)
LoadParent(h, wanted, at) ==
    LET generation == h.generations[at.generation]
        p == generation.parent
    IN  IF at.outcome # "walking" THEN at
        ELSE IF generation.version = wanted THEN [at EXCEPT !.outcome = None]
        ELSE IF generation.version < wanted \/ p = 0
        THEN [at EXCEPT !.outcome = "history not retained"]
        ELSE IF ~ValidEdge(h, at.generation, p, at.seen) \/ ~Loads(h, p)
        THEN [at EXCEPT !.outcome = "corrupt"]
        ELSE [at EXCEPT !.generation = p, !.seen = @ \cup {p}]

(* select_metadata.                                                        *)
PinMetadata(h, wanted) ==
    LET version == IF wanted = Current THEN h.version ELSE wanted
        begin == [generation |-> h.head, seen |-> {h.head}, outcome |-> "walking"]
        turn[n \in 0..Cardinality(DOMAIN h.generations)] ==
          {LoadParent(h, version, at) : at \in IF n = 0 THEN {begin} ELSE turn[n - 1]}
        end == CHOOSE at \in turn[Cardinality(DOMAIN h.generations)] : TRUE
    IN  IF h.generations[h.head].version # h.version \/ h.generations[h.head].commit # h.commit
           \/ ~Loads(h, h.head)
        THEN NotSelected("corrupt")
        ELSE IF version > h.version THEN NotSelected("version not found")
        ELSE IF end.outcome # None THEN NotSelected(end.outcome)
        ELSE Selected(end.generation, h.generations[end.generation].commit)

-----------------------------------------------------------------------------
(* What the selection means.                                               *)

(* The versions and commits along the semantic history of HEAD.            *)
CommitsOf(h) ==
    LET up[n \in 0..Cardinality(DOMAIN h.commits)] ==
          IF n = 0 THEN {h.commit}
          ELSE up[n - 1] \cup ({h.commits[c].parent : c \in up[n - 1]} \ {0})
    IN  up[Cardinality(DOMAIN h.commits)]

(* The generations HEAD still reaches through physical parents.            *)
GenerationsOf(h) ==
    LET up[n \in 0..Cardinality(DOMAIN h.generations)] ==
          IF n = 0 THEN {h.head}
          ELSE up[n - 1] \cup ({h.generations[g].parent : g \in up[n - 1]} \ {0})
    IN  up[Cardinality(DOMAIN h.generations)]

(* A history as publication leaves it.                                     *)
Intact(h) ==
    /\ h.generations[h.head].commit = h.commit /\ h.generations[h.head].version = h.version
    /\ \A g \in GenerationsOf(h) :
        LET generation == h.generations[g]
        IN  /\ generation.sound /\ generation.commit \in CommitsOf(h)
            /\ generation.state = generation.commit
            /\ generation.version = h.commits[generation.commit].version
            /\ generation.parent # 0 =>
                  /\ generation.parent # g
                  /\ h.generations[generation.parent].version <= generation.version
    /\ \A c \in CommitsOf(h) :
        LET commit == h.commits[c]
        IN  commit.sound /\ commit.previous = commit.parent
            /\ (commit.parent # 0 => h.commits[commit.parent].version + 1 = commit.version)
===============================================================================
