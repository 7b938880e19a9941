------------------------------ MODULE PageImage ------------------------------
(***************************************************************************)
(* Physical images of the metadata database (otmp/src/physical.rs and      *)
(* checkpoint_index.rs, the formats of otmp-protocol, and the reader's     *)
(* walks in otmp/src/reader/pages.rs): a full checkpoint with an index of  *)
(* the hashes of its pages, and a persistent tree that maps the pages      *)
(* written since to the packs that hold them.                              *)
(*                                                                         *)
(* Objects are named by their contents, so an object is its own name: a    *)
(* pack is a function from page numbers to page contents, a node of the    *)
(* page map has its children in it, and the hash of a page is the page.    *)
(* A leaf maps page numbers to packs.                                      *)
(***************************************************************************)
EXTENDS Naturals, Sequences, FiniteSets, FiniteSetsExt, SequencesExt

CONSTANTS Capacity,        \* entries of a node, of either tree
          PackPages,       \* pages of a pack
          PageBytes,       \* what a page adds to the size of an image or a pack
          NodeBytes        \* the size of a node

ASSUME ImageAssumption ==
    /\ Capacity \in Nat /\ Capacity > 1
    /\ PackPages \in Nat \ {0}
    /\ PageBytes \in Nat /\ NodeBytes \in Nat

NoTree == [level |-> 0, entries |-> <<>>]

Leaf(entries) == [level |-> 0, entries |-> entries]
Internal(level, children) == [level |-> level, children |-> children]
IsLeaf(t) == t.level = 0

(* The sequence xs cut into pieces of n, the last possibly shorter.        *)
Chunks(xs, n) ==
    [i \in 1..((Len(xs) + n - 1) \div n) |->
        SubSeq(xs, (i - 1) * n + 1, Min({i * n, Len(xs)}))]

RECURSIVE MinPage(_), MaxPage(_)
MinPage(t) == IF IsLeaf(t) THEN Min(DOMAIN t.entries) ELSE MinPage(Head(t.children))
MaxPage(t) == IF IsLeaf(t) THEN Max(DOMAIN t.entries) ELSE MaxPage(Last(t.children))

-----------------------------------------------------------------------------
(* Building: leaf_nodes, internal_nodes, update and persist.               *)
(*                                                                         *)
(* What these return is the trees made and the artifacts registered on the *)
(* way, tagged with the kind of their object.                              *)

MapObject(t) == <<"page_map", t>>
PackObject(k) == <<"page_pack", k>>

(* create_tree, for each of the nodes.                                     *)
Created(nodes) == [nodes |-> nodes, artifacts |-> {MapObject(t) : t \in ToSet(nodes)}]

Shared(t) == [nodes |-> <<t>>, artifacts |-> {}]
Dropped == [nodes |-> <<>>, artifacts |-> {}]

(* Mutant: the level above is built into a map of artifacts of its own.    *)
WithArtifactsAnew(built, artifacts) == built

(* The map of artifacts is one for all that a candidate builds.            *)
WithArtifacts(built, artifacts) == [built EXCEPT !.artifacts = @ \cup artifacts]

Overfull(n) == n > Capacity

(* Halves of halves until each piece fits a node.                          *)
RECURSIVE Pieces(_)
Pieces(xs) ==
    LET half == Len(xs) \div 2
    IN  IF xs = <<>> THEN <<>>
        ELSE IF Overfull(Len(xs))
        THEN Pieces(SubSeq(xs, 1, half)) \o Pieces(SubSeq(xs, half + 1, Len(xs)))
        ELSE <<xs>>

Ordered(pages) ==
    [i \in 1..Cardinality(pages) |->
        CHOOSE p \in pages : Cardinality({q \in pages : q < p}) = i - 1]

LeafNodes(entries) ==
    LET pieces == Pieces(Ordered(DOMAIN entries))
    IN  Created([i \in DOMAIN pieces |-> Leaf([p \in ToSet(pieces[i]) |-> entries[p]])])

InternalNodes(children, level) ==
    LET pieces == Pieces(children)
    IN  Created([i \in DOMAIN pieces |-> Internal(level, pieces[i])])

Merge(old, new) ==
    [p \in DOMAIN old \cup DOMAIN new |-> IF p \in DOMAIN new THEN new[p] ELSE old[p]]

Only(f, S) == [p \in DOMAIN f \cap S |-> f[p]]

(* Mutant: the changes beyond the last child's pages are dropped.          *)
ForChildWithin(t, i, changes) ==
    LET above == IF i = 1 THEN 0 ELSE MaxPage(t.children[i - 1])
    IN  Only(changes, {p \in DOMAIN changes : p > above /\ p <= MaxPage(t.children[i])})

(* The changes that go to child i: those up to its last page, and for the  *)
(* last child all the rest.                                                *)
ForChild(t, i, changes) ==
    LET above == IF i = 1 THEN 0 ELSE MaxPage(t.children[i - 1])
        upTo(p) == i = Len(t.children) \/ p <= MaxPage(t.children[i])
    IN  Only(changes, {p \in DOMAIN changes : p > above /\ upTo(p)})

(* A subtree that nothing touches is shared; entries beyond the end of the *)
(* file go.                                                                *)
RECURSIVE Update(_, _, _)
Update(t, changes, eof) ==
    IF changes = <<>> /\ MaxPage(t) <= eof THEN Shared(t)
    ELSE IF changes = <<>> /\ MinPage(t) > eof THEN Dropped
    ELSE IF IsLeaf(t) THEN LeafNodes(Merge(Only(t.entries, 1..eof), changes))
    ELSE LET below == [i \in DOMAIN t.children |->
                          Update(t.children[i], ForChild(t, i, changes), eof)]
             children == FlattenSeq([i \in DOMAIN below |-> below[i].nodes])
         IN  WithArtifacts(InternalNodes(children, t.level),
                           UNION {below[i].artifacts : i \in DOMAIN below})

RECURSIVE Grow(_), Collapse(_)
Grow(built) ==
    IF Len(built.nodes) <= 1 THEN built
    ELSE Grow(WithArtifacts(InternalNodes(built.nodes, Head(built.nodes).level + 1),
                            built.artifacts))
Collapse(t) ==
    IF ~IsLeaf(t) /\ Len(t.children) = 1 THEN Collapse(t.children[1]) ELSE t

(* The changed pages, packed in page order.                                *)
Packs(changed) ==
    LET chunks == Chunks(Ordered(DOMAIN changed), PackPages)
    IN  {Only(changed, ToSet(chunks[i])) : i \in DOMAIN chunks}

Mappings(changed) ==
    LET packs == Packs(changed)
    IN  [p \in DOMAIN changed |-> CHOOSE k \in packs : p \in DOMAIN k]

RECURSIVE TreeNodes(_)
TreeNodes(t) ==
    IF t = NoTree THEN {}
    ELSE {t} \cup IF IsLeaf(t) THEN {} ELSE UNION {TreeNodes(t.children[i]) : i \in DOMAIN t.children}

RECURSIVE Flatten(_)
Flatten(t) ==
    IF IsLeaf(t) THEN t.entries
    ELSE FoldLeft(LAMBDA f, c : Merge(f, Flatten(c)), <<>>, t.children)

TreePacks(t) ==
    LET mapped == Flatten(t)
    IN  {mapped[p] : p \in DOMAIN mapped}

(* What the root reaches.                                                  *)
Reachable(t) == {MapObject(n) : n \in TreeNodes(t)} \cup {PackObject(k) : k \in TreePacks(t)}

(* The size of what the root reaches: a pack counts in full as long as one *)
(* page of it is used.                                                     *)
ReachableBytes(t) ==
    NodeBytes * Cardinality(TreeNodes(t))
      + MapThenSumSet(LAMBDA k : PageBytes * Cardinality(DOMAIN k), TreePacks(t))

(* The tree of the next image, NoTree when no page is mapped, and the      *)
(* artifacts to upload: of those registered the ones that it reaches.      *)
Persist(parent, changed, eof) ==
    LET built == Grow(IF parent = NoTree THEN LeafNodes(Mappings(changed))
                      ELSE Update(parent, Mappings(changed), eof))
        root == IF built.nodes = <<>> THEN NoTree ELSE Collapse(built.nodes[1])
        registered == built.artifacts \cup {PackObject(k) : k \in Packs(changed)}
    IN  [tree |-> root, artifacts |-> registered \cap Reachable(root)]

-----------------------------------------------------------------------------
(* checkpoint_index::build: leaves of Capacity hashes, and levels above    *)
(* them until one node is left.                                            *)

IndexLeaf(first, hashes) == [level |-> 0, first |-> first, count |-> Len(hashes), hashes |-> hashes]

IndexNode(level, children) ==
    [level |-> level, first |-> children[1].first,
     count |-> FoldLeft(LAMBDA n, c : n + c.count, 0, children), children |-> children]

IndexObject(node) == <<"index", node>>
IndexObjects(nodes) == [i \in DOMAIN nodes |-> IndexObject(nodes[i])]

(* The root, and the artifacts in the order they are built.                *)
RECURSIVE IndexLevels(_, _)
IndexLevels(nodes, artifacts) ==
    IF Len(nodes) = 1 THEN [root |-> nodes[1], artifacts |-> artifacts]
    ELSE LET groups == Chunks(nodes, Capacity)
             above == [i \in DOMAIN groups |-> IndexNode(nodes[1].level + 1, groups[i])]
         IN  IndexLevels(above, artifacts \o IndexObjects(above))

FirstOfLeaf(i) == (i - 1) * Capacity + 1

CheckpointIndex(pages) ==
    LET chunks == Chunks(pages, Capacity)
        leaves == [i \in DOMAIN chunks |-> IndexLeaf(FirstOfLeaf(i), chunks[i])]
    IN  IndexLevels(leaves, IndexObjects(leaves))

(* verify_checkpoint_index_node: every node has the interval its parent    *)
(* declares and every page the hash its leaf gives it.                     *)
RECURSIVE IndexVerified(_, _, _, _, _)
IndexVerified(node, level, first, count, pages) ==
    /\ node.level = level /\ node.first = first /\ node.count = count
    /\ IF level = 0
       THEN \A i \in DOMAIN node.hashes :
               /\ first + i - 1 \in DOMAIN pages
               /\ pages[first + i - 1] = node.hashes[i]
       ELSE \A i \in DOMAIN node.children :
               LET c == node.children[i]
               IN  IndexVerified(c, level - 1, c.first, c.count, pages)

-----------------------------------------------------------------------------
(* Reading: an image is its checkpoint, the tree over it and its length.   *)

(* load_tree: the intervals of the children lie one after the other within *)
(* the interval of their parent.                                           *)
RECURSIVE TreeLoads(_, _, _, _)
TreeLoads(t, level, lower, upper) ==
    /\ t.level = level
    /\ MinPage(t) > lower /\ MaxPage(t) <= upper
    /\ ~IsLeaf(t) =>
          \A i \in DOMAIN t.children :
             LET previous == IF i = 1 THEN lower ELSE MaxPage(t.children[i - 1])
                 max == MaxPage(t.children[i])
             IN  /\ previous < max /\ max <= upper
                 /\ TreeLoads(t.children[i], level - 1, previous, max)

(* What verify_checkpoint_index reads.                                     *)
RECURSIVE IndexReads(_)
IndexReads(node) ==
    {IndexObject(node)} \cup
        IF node.level = 0 THEN {} ELSE UNION {IndexReads(c) : c \in ToSet(node.children)}

(* resolve_generation accepts the image.                                   *)
Resolves(image) ==
    LET base == Len(image.checkpoint)
        mapped == Flatten(image.tree)
    IN  /\ IndexVerified(image.index, image.index.level, 1, base, image.checkpoint)
        /\ image.count > 0
        /\ IF image.tree = NoTree THEN image.count = base
           ELSE TreeLoads(image.tree, image.tree.level, 0, image.count)
        /\ Cardinality({p \in DOMAIN mapped : p > base}) = IF image.count > base THEN image.count - base ELSE 0
        /\ \A p \in DOMAIN mapped : p \in DOMAIN mapped[p]

(* The pages it assembles.                                                 *)
Resolved(image) ==
    LET mapped == Flatten(image.tree)
    IN  [p \in 1..image.count |->
            IF p \in DOMAIN mapped THEN mapped[p][p] ELSE image.checkpoint[p]]

(* Mutant: a page that is the last of a child is looked for in the next.   *)
ChildAfter(t, page) == {i \in DOMAIN t.children : MaxPage(t.children[i]) > page}

ChildrenFrom(t, page) == {i \in DOMAIN t.children : MaxPage(t.children[i]) >= page}

(* AuthenticatedImage::mapping: the pack of a page, found by the largest   *)
(* page of each child, or none.                                            *)
RECURSIVE MappingIn(_, _)
MappingIn(t, page) ==
    IF IsLeaf(t) THEN (IF page \in DOMAIN t.entries THEN {t.entries[page]} ELSE {})
    ELSE IF ChildrenFrom(t, page) = {} THEN {}
    ELSE MappingIn(t.children[Min(ChildrenFrom(t, page))], page)

(* AuthenticatedImage::checkpoint_hash.                                    *)
RECURSIVE HashIn(_, _)
HashIn(node, page) ==
    IF node.level = 0 THEN node.hashes[page - node.first + 1]
    ELSE HashIn(CHOOSE c \in ToSet(node.children) :
                    c.first <= page /\ page - c.first < c.count, page)

(* copy_page: the page the map names, or the checkpoint's if it has the    *)
(* hash its index gives it.                                                *)
PageRead(image, page) ==
    LET pack == MappingIn(image.tree, page)
    IN  IF pack # {} THEN (CHOOSE k \in pack : TRUE)[page]
        ELSE IF page <= Len(image.checkpoint) /\ HashIn(image.index, page) = image.checkpoint[page]
        THEN image.checkpoint[page]
        ELSE <<"corrupt">>
=============================================================================
