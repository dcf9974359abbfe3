---------------------------- MODULE Node_proofs ----------------------------
(***************************************************************************)
(* For any number of nodes, and any interleaving of their threads: the     *)
(* chain and the disk of a node implement fork choice, and a node that     *)
(* crashes comes back with at least the work of whatever it announced.     *)
(* For these a block is known by its work and by the work it leaves to the *)
(* next one.  Then its transactions: what mempools and templates are       *)
(* computed to be, and the history of every sender, in order and without   *)
(* a gap.  Last, the undo journal under a node's ledger (Journal).         *)
(***************************************************************************)
EXTENDS Node, Journal, Totals_proofs, FiniteSetTheorems, SequenceTheorems,
        WellFoundedInduction, TLAPS

\* c is a sequence of blocks whose works are possible ones.
Weighed(c) ==
  \E S : /\ c \in Seq(S)
         /\ \A b \in S : b.work \in Works /\ b.next \in Works

----------------------------------------------------------------------------
(* Chains and their work. *)

\* Parts of a weighed chain are weighed.
LEMMA WeighedPart ==
  ASSUME NEW c, Weighed(c), NEW i \in Nat \ {0}, NEW j \in 0..Len(c)
  PROVE  /\ Weighed(SubSeq(c, i, j))
         /\ \A k \in 1..(j - i + 1) : SubSeq(c, i, j)[k] = c[i + k - 1]
         /\ Len(SubSeq(c, i, j)) = IF i <= j THEN j - i + 1 ELSE 0
<1>1. PICK S : c \in Seq(S) /\ \A b \in S : b.work \in Works /\ b.next \in Works
  BY DEF Weighed
<1>2. Len(c) \in Nat /\ \A k \in 1..Len(c) : c[k] \in S
  BY <1>1, ElementOfSeq, LenProperties
<1>3. \A k \in i..j : c[k] \in S
  BY <1>2
<1>4. /\ SubSeq(c, i, j) \in Seq(S)
      /\ Len(SubSeq(c, i, j)) = IF i <= j THEN j - i + 1 ELSE 0
      /\ \A k \in 1..(j - i + 1) : SubSeq(c, i, j)[k] = c[i + k - 1]
  BY <1>2, <1>3, SubSeqProperties
<1>5. Weighed(SubSeq(c, i, j))
  BY <1>1, <1>4 DEF Weighed
<1> QED BY <1>4, <1>5

\* Chains of weighed blocks can be joined,
LEMMA WeighedConcat ==
  ASSUME NEW c, Weighed(c), NEW d, Weighed(d)
  PROVE  Weighed(c \o d)
<1>1. PICK S : c \in Seq(S) /\ \A b \in S : b.work \in Works /\ b.next \in Works
  BY DEF Weighed
<1>2. PICK T : d \in Seq(T) /\ \A b \in T : b.work \in Works /\ b.next \in Works
  BY DEF Weighed
<1>3. c \in Seq(S \cup T) /\ d \in Seq(S \cup T)
  BY <1>1, <1>2, SeqMonotonic
<1>4. c \o d \in Seq(S \cup T)
  BY <1>3, ConcatProperties
<1> QED BY <1>1, <1>2, <1>4 DEF Weighed

\* extended by a weighed block,
LEMMA WeighedAppend ==
  ASSUME NEW c, Weighed(c), NEW b, b.work \in Works, b.next \in Works
  PROVE  Weighed(Append(c, b))
<1>1. PICK S : c \in Seq(S) /\ \A x \in S : x.work \in Works /\ x.next \in Works
  BY DEF Weighed
<1>2. c \in Seq(S \cup {b})
  BY <1>1, SeqMonotonic
<1>3. Append(c, b) \in Seq(S \cup {b})
  BY <1>2, AppendProperties
<1> QED BY <1>1, <1>3 DEF Weighed

\* and empty.
LEMMA WeighedEmpty == Weighed(<< >>)
<1> DEFINE e == << >>
           b == [work |-> BaseWork, next |-> BaseWork]
<1>1. e \in Seq({b})
  BY EmptySeq
<1>2. \A x \in {b} : x.work \in Works /\ x.next \in Works
  BY ChainAssumption
<1> HIDE DEF b, e
<1>3. Weighed(e)
  BY <1>1, <1>2 DEF Weighed
<1> QED BY <1>3 DEF e

\* The blocks of such a chain have work that can be added up.
LEMMA WeighedBlocks ==
  ASSUME NEW c, Weighed(c)
  PROVE  /\ Len(c) \in Nat /\ DOMAIN c = 1..Len(c)
         /\ \A h \in 1..Len(c) : c[h].work \in Nat /\ c[h].next \in Works
<1>1. PICK S : c \in Seq(S) /\ \A b \in S : b.work \in Works /\ b.next \in Works
  BY DEF Weighed
<1>2. Works \subseteq Nat
  BY ChainAssumption
<1> QED BY <1>1, <1>2, ElementOfSeq, LenProperties

\* The work of a chain, entry by entry.
Entries(c) == [h \in DOMAIN c |-> c[h].work]

\* Its entries are a finite family of numbers,
LEMMA EntriesType ==
  ASSUME NEW c, Weighed(c)
  PROVE  Entries(c) \in [1..Len(c) -> Nat] /\ IsFiniteSet(1..Len(c))
<1>1. IsFiniteSet(1..Len(c))
  BY WeighedBlocks, FS_Interval
<1> QED BY <1>1, WeighedBlocks DEF Entries

\* so its work is a number.
LEMMA WorkNat ==
  ASSUME NEW c, Weighed(c)
  PROVE  Work(c) \in Nat
<1>1. Total(Entries(c), 1..Len(c)) \in Nat
  BY EntriesType, TotalNat
<1> QED BY <1>1, WeighedBlocks DEF Work, Entries

\* A block on top adds its work.
LEMMA WorkGrows ==
  ASSUME NEW c, NEW d, Weighed(c), Weighed(d), Extends(c, d)
  PROVE  Work(c) >= Work(d)
<1> DEFINE n == Len(d)
<1>1. n \in Nat /\ Len(c) = n + 1
  BY WeighedBlocks DEF Extends
<1>2. \A h \in 1..n : c[h] = d[h]
  <2>1. \A k \in 1..(n - 1 + 1) : SubSeq(c, 1, n)[k] = c[1 + k - 1]
    BY <1>1, WeighedPart
  <2>2. SubSeq(c, 1, n) = d
    BY DEF Extends, Prefix
  <2> QED BY <1>1, <2>1, <2>2
<1>3. Total(Entries(c), 1..(n + 1)) = Total(Entries(c), (1..(n + 1)) \ {n + 1}) + Entries(c)[n + 1]
  <2>1. n + 1 \in 1..(n + 1)
    BY <1>1
  <2> QED BY <1>1, <2>1, EntriesType, TotalSplit
<1>4. Entries(c)[n + 1] \in Nat
  BY <1>1, EntriesType
<1>5. (1..(n + 1)) \ {n + 1} = 1..n
  BY <1>1
<1>6. Total(Entries(c), 1..n) = Total(Entries(d), 1..n)
  <2>1. \A h \in 1..n : Entries(c)[h] = Entries(d)[h]
    BY <1>1, <1>2, WeighedBlocks DEF Entries
  <2>2. Units(Entries(c), 1..n) = Units(Entries(d), 1..n)
    BY <2>1 DEF Units
  <2> QED BY <2>2 DEF Total
<1>7. Work(c) = Total(Entries(c), 1..(n + 1)) /\ Work(d) = Total(Entries(d), 1..n)
  BY <1>1, WeighedBlocks DEF Work, Entries
<1>8. Total(Entries(d), 1..n) \in Nat
  BY EntriesType, TotalNat
<1>9. Total(Entries(c), 1..(n + 1)) = Total(Entries(d), 1..n) + Entries(c)[n + 1]
  BY ONLY <1>3, <1>5, <1>6, Zenon
<1> DEFINE x == Total(Entries(c), 1..(n + 1))
           y == Total(Entries(d), 1..n)
           z == Entries(c)[n + 1]
<1>10. y \in Nat /\ z \in Nat /\ x = y + z
  BY <1>4, <1>8, <1>9
<1> HIDE DEF x, y, z
<1>11. x >= y
  BY <1>10
<1> QED BY <1>7, <1>11, Zenon DEF x, y

\* The works a template is given are possible ones.
LEMMA TemplateWorks ==
  ASSUME NEW c, Weighed(c)
  PROVE  WorkAfter(c) \in Works /\ Retargets(c) \subseteq Works
<1>1. WorkAfter(c) \in Works
  <2>1. CASE c = << >>
    BY <2>1, ChainAssumption DEF WorkAfter
  <2>2. CASE c # << >>
    <3>1. Len(c) \in 1..Len(c)
      <4>1. PICK S : c \in Seq(S)
        BY DEF Weighed
      <4> QED BY <2>2, <4>1, EmptySeq
    <3> QED BY <2>2, <3>1, WeighedBlocks DEF WorkAfter, Last
  <2> QED BY <2>1, <2>2
<1> QED BY <1>1 DEF Retargets

----------------------------------------------------------------------------
(* The inductive invariant. *)

IsRecord(s) == s = [stage |-> s.stage, peer |-> s.peer, top |-> s.top,
                    h |-> s.h, step |-> s.step, got |-> s.got]

\* Every variable has an entry for every node.
Shape ==
  /\ chain = [n \in Nodes |-> chain[n]]
  /\ template = [n \in Nodes |-> template[n]]
  /\ posts = [n \in Nodes |-> posts[n]]
  /\ disk = [n \in Nodes |-> disk[n]]
  /\ sync = [n \in Nodes |-> sync[n]]

\* The height a sync stands at is within the node's own chain, which no
\* other thread makes shorter meanwhile.
SyncFits(n) ==
  /\ IsRecord(sync[n])
  /\ sync[n].peer \in Nodes
  /\ sync[n].top \in Nat /\ sync[n].h \in Nat /\ sync[n].step \in Nat
  /\ sync[n].stage \in {"walk", "headers", "bodies"} => sync[n].h <= Len(chain[n])
  /\ Weighed(sync[n].got)

\* A post is a block that the node is past, and once saved past on disk too.
PostFits(n, p) ==
  /\ p = [chain |-> p.chain, by |-> p.by, saved |-> p.saved]
  /\ Weighed(p.chain)
  /\ Work(p.chain) <= Work(chain[n])
  /\ p.saved => Work(p.chain) <= Work(disk[n])

\* The durability of what was announced is not inductive: a block is on its
\* way to be saved and announced in posts, and what is on disk must never be
\* heavier than the chain that the next save puts in its place.
NodeFits(n) ==
  /\ Weighed(chain[n]) /\ Weighed(template[n]) /\ Weighed(disk[n])
  /\ Work(disk[n]) <= Work(chain[n])
  /\ SyncFits(n)
  /\ \A p \in posts[n] : PostFits(n, p)

AnnouncedFits ==
  \A a \in announced : a.from \in Nodes /\ Weighed(a.chain)

IInv ==
  /\ Shape
  /\ \A n \in Nodes : NodeFits(n)
  /\ AnnouncedFits
  /\ AnnouncedIsDurable

\* Nodes start with an empty chain and nothing announced.
LEMMA InitInv == Init => IInv
<1> SUFFICES ASSUME Init PROVE IInv
  OBVIOUS
<1>1. Shape
  BY DEF Init, Shape
<1>2. Work(<< >>) \in Nat
  BY WeighedEmpty, WorkNat
<1>3. ASSUME NEW n \in Nodes PROVE NodeFits(n)
  <2>1. chain[n] = << >> /\ template[n] = << >> /\ disk[n] = << >> /\ posts[n] = {}
    BY DEF Init
  <2>2. sync[n] = NoSync(n, "idle")
    BY DEF Init
  <2>3. SyncFits(n)
    BY <2>2, WeighedEmpty DEF SyncFits, IsRecord, NoSync
  <2> QED BY <1>2, <2>1, <2>3, WeighedEmpty DEF NodeFits
<1>4. AnnouncedFits /\ AnnouncedIsDurable
  BY DEF Init, AnnouncedFits, AnnouncedIsDurable
<1> QED BY <1>1, <1>3, <1>4 DEF IInv

\* What one step of node n must leave behind: other nodes keep what they
\* have, and the work on n's disk does not fall.
LEMMA Assemble ==
  ASSUME IInv, NEW n \in Nodes,
         NEW c, NEW t, NEW q, NEW d, NEW s,
         chain' = [chain EXCEPT ![n] = c],
         template' = [template EXCEPT ![n] = t],
         posts' = [posts EXCEPT ![n] = q],
         disk' = [disk EXCEPT ![n] = d],
         sync' = [sync EXCEPT ![n] = s],
         NodeFits(n)',
         Work(d) >= Work(disk[n]), Weighed(d),
         \A a \in announced' \ announced :
            a.from = n /\ Weighed(a.chain) /\ Work(d) >= Work(a.chain)
  PROVE  IInv'
<1>1. Shape'
  BY DEF IInv, Shape
<1>2. ASSUME NEW m \in Nodes PROVE NodeFits(m)'
  <2>1. CASE m = n
    BY <2>1
  <2>2. CASE m # n
    <3>1. /\ chain'[m] = chain[m] /\ template'[m] = template[m] /\ posts'[m] = posts[m]
          /\ disk'[m] = disk[m] /\ sync'[m] = sync[m]
      BY <2>2 DEF IInv, Shape
    <3>2. NodeFits(m)
      BY DEF IInv
    <3> QED BY <3>1, <3>2 DEF NodeFits, SyncFits, PostFits, IsRecord
  <2> QED BY <2>1, <2>2
<1>3. AnnouncedFits'
  BY DEF IInv, AnnouncedFits
<1>4. ASSUME NEW a \in announced' PROVE Work(disk'[a.from]) >= Work(a.chain)
  <2>1. disk'[n] = d
    BY DEF IInv, Shape
  <2>2. CASE a \notin announced
    BY <2>1, <2>2
  <2>3. CASE a \in announced
    <3>1. a.from \in Nodes /\ Weighed(a.chain) /\ Work(disk[a.from]) >= Work(a.chain)
      BY <2>3 DEF IInv, AnnouncedFits, AnnouncedIsDurable
    <3>2. CASE a.from # n
      <4>1. disk'[a.from] = disk[a.from]
        BY <3>1, <3>2 DEF IInv, Shape
      <4> QED BY <3>1, <4>1
    <3>3. CASE a.from = n
      <4>1. Work(d) \in Nat /\ Work(disk[n]) \in Nat /\ Work(a.chain) \in Nat
        BY <3>1, WorkNat DEF IInv, NodeFits
      <4> QED BY <2>1, <3>1, <3>3, <4>1
    <3> QED BY <3>2, <3>3
  <2> QED BY <2>2, <2>3
<1>5. AnnouncedIsDurable'
  BY <1>4 DEF AnnouncedIsDurable
<1> QED BY <1>1, <1>2, <1>3, <1>5 DEF IInv

\* Nothing that IInv is about changes.
LEMMA Unmoved ==
  ASSUME IInv, UNCHANGED <<chain, template, posts, disk, sync, announced>>
  PROVE  IInv'
BY DEF IInv, Shape, NodeFits, SyncFits, IsRecord, PostFits, AnnouncedFits,
       AnnouncedIsDurable

\* What a node keeps it can be said to be given again.
LEMMA Same ==
  ASSUME IInv, NEW n \in Nodes
  PROVE  /\ chain = [chain EXCEPT ![n] = chain[n]]
         /\ template = [template EXCEPT ![n] = template[n]]
         /\ posts = [posts EXCEPT ![n] = posts[n]]
         /\ disk = [disk EXCEPT ![n] = disk[n]]
         /\ sync = [sync EXCEPT ![n] = sync[n]]
BY DEF IInv, Shape

\* The entry of a node after it was given a new one.
LEMMA Given ==
  ASSUME IInv, NEW n \in Nodes, NEW x
  PROVE  /\ [chain EXCEPT ![n] = x][n] = x
         /\ [template EXCEPT ![n] = x][n] = x
         /\ [posts EXCEPT ![n] = x][n] = x
         /\ [disk EXCEPT ![n] = x][n] = x
         /\ [sync EXCEPT ![n] = x][n] = x
BY DEF IInv, Shape

\* What the invariant says of one node.
LEMMA WorksOf ==
  ASSUME IInv, NEW n \in Nodes
  PROVE  /\ Weighed(chain[n]) /\ Weighed(disk[n]) /\ Weighed(template[n])
         /\ Work(chain[n]) \in Nat /\ Work(disk[n]) \in Nat
         /\ Work(disk[n]) <= Work(chain[n])
         /\ SyncFits(n)
         /\ \A p \in posts[n] : PostFits(n, p) /\ Work(p.chain) \in Nat
BY WorkNat DEF IInv, NodeFits, PostFits

\* An idle sync fits any chain.
LEMMA NoSyncFits ==
  ASSUME NEW n \in Nodes, NEW stage \in {"idle", "refused", "save"},
         sync'[n] = NoSync(n, stage)
  PROVE  SyncFits(n)'
BY WeighedEmpty DEF NoSync, SyncFits, IsRecord

\* A block on top of the chain makes it longer and heavier.
LEMMA AppendGrows ==
  ASSUME IInv, NEW n \in Nodes, NEW c, Weighed(c), CanAppend(chain[n], c)
  PROVE  /\ Work(c) \in Nat /\ Work(c) >= Work(chain[n])
         /\ Len(c) = Len(chain[n]) + 1
BY WorksOf, WorkGrows, WorkNat DEF CanAppend, Extends

\* A longer and heavier chain disturbs neither the sync nor the posts.
LEMMA GrowFits ==
  ASSUME IInv, NEW n \in Nodes, NEW c, NEW q, NEW by, NEW t,
         Weighed(c), Work(c) \in Nat, Work(c) >= Work(chain[n]),
         Len(c) = Len(chain[n]) + 1, Weighed(t),
         chain' = [chain EXCEPT ![n] = c],
         template' = [template EXCEPT ![n] = t],
         AddPost(n, c, by),
         UNCHANGED <<disk, sync, announced>>
  PROVE  IInv'
<1> DEFINE post == [chain |-> c, by |-> by, saved |-> FALSE]
<1>1. /\ chain'[n] = c /\ template'[n] = t /\ disk'[n] = disk[n] /\ sync'[n] = sync[n]
      /\ posts'[n] = posts[n] \cup {post}
  BY Given DEF AddPost
<1>2. SyncFits(n)'
  <2>1. SyncFits(n) /\ Len(chain[n]) \in Nat
    BY WorksOf, WeighedBlocks
  <2> QED BY <1>1, <2>1 DEF SyncFits, IsRecord
<1>3. ASSUME NEW p \in posts'[n] PROVE PostFits(n, p)'
  <2>1. CASE p \in posts[n]
    <3>1. PostFits(n, p) /\ Work(p.chain) \in Nat /\ Work(chain[n]) \in Nat
      BY <2>1, WorksOf
    <3> QED BY <1>1, <3>1 DEF PostFits
  <2>2. CASE p = post
    BY <1>1, <2>2 DEF PostFits
  <2> QED BY <1>1, <1>3, <2>1, <2>2
<1>4. NodeFits(n)'
  <2>1. Weighed(disk[n]) /\ Work(disk[n]) <= Work(c)
    BY WorksOf
  <2> QED BY <1>1, <1>2, <1>3, <2>1 DEF NodeFits
<1>5. Work(disk[n]) >= Work(disk[n]) /\ Weighed(disk[n])
  BY WorksOf
<1>6. /\ posts' = [posts EXCEPT ![n] = posts[n] \cup {post}]
      /\ disk' = [disk EXCEPT ![n] = disk[n]]
      /\ sync' = [sync EXCEPT ![n] = sync[n]]
  BY Same DEF AddPost
<1> HIDE DEF post
<1> QED BY <1>4, <1>5, <1>6, Assemble

\* Nothing but n's template and sync changes.
LEMMA StandStill ==
  ASSUME IInv, NEW n \in Nodes, NEW t, Weighed(t), NEW s,
         template' = [template EXCEPT ![n] = t],
         sync' = [sync EXCEPT ![n] = s],
         SyncFits(n)',
         UNCHANGED <<chain, posts, disk, announced>>
  PROVE  IInv'
<1>1. /\ template'[n] = t
      /\ chain' = [chain EXCEPT ![n] = chain[n]]
      /\ posts' = [posts EXCEPT ![n] = posts[n]]
      /\ disk' = [disk EXCEPT ![n] = disk[n]]
  BY Same, Given
<1>2. NodeFits(n)'
  BY <1>1, WorksOf DEF NodeFits, PostFits
<1>3. Work(disk[n]) >= Work(disk[n]) /\ Weighed(disk[n])
  BY WorksOf
<1> QED BY <1>1, <1>2, <1>3, Assemble

\* The chain of n is saved, and its posts or its sync move on.
LEMMA SaveFits ==
  ASSUME IInv, NEW n \in Nodes, NEW q, NEW s,
         posts' = [posts EXCEPT ![n] = q],
         sync' = [sync EXCEPT ![n] = s],
         disk' = [disk EXCEPT ![n] = chain[n]],
         \A p \in q : /\ p = [chain |-> p.chain, by |-> p.by, saved |-> p.saved]
                      /\ \E o \in posts[n] : o.chain = p.chain,
         SyncFits(n)',
         UNCHANGED <<chain, template, announced>>
  PROVE  IInv'
<1>1. /\ disk'[n] = chain[n] /\ posts'[n] = q
      /\ chain' = [chain EXCEPT ![n] = chain[n]]
      /\ template' = [template EXCEPT ![n] = template[n]]
  BY Same, Given
<1>2. Weighed(chain[n]) /\ Work(chain[n]) >= Work(disk[n])
  BY WorksOf
<1>3. ASSUME NEW p \in q PROVE PostFits(n, p)'
  <2>1. PICK o \in posts[n] : o.chain = p.chain
    OBVIOUS
  <2>2. PostFits(n, o)
    BY WorksOf
  <2> QED BY <1>1, <2>1, <2>2 DEF PostFits
<1>4. NodeFits(n)'
  BY <1>1, <1>3, WorksOf DEF NodeFits
<1> QED BY <1>1, <1>2, <1>4, Assemble

----------------------------------------------------------------------------
(* The actions of one node. *)

\* Mining: the template, and the block it becomes.
LEMMA MiningStep ==
  ASSUME IInv, NEW n \in Nodes, BlockTemplate(n) \/ MineBlock(n) \/ DropTemplate(n)
  PROVE  IInv'
<1>0. sync[n] = sync[n] /\ SyncFits(n) /\ Weighed(chain[n]) /\ Weighed(template[n])
  BY WorksOf
<1>1. CASE BlockTemplate(n)
  <2>1. PICK next \in Retargets(chain[n]) :
          template' = [template EXCEPT ![n] =
             Append(chain[n], [miner |-> n, work |-> WorkAfter(chain[n]), next |-> next,
                               txs |-> Chosen(mempool[n], chain[n])])]
    BY <1>1 DEF BlockTemplate
  <2> DEFINE b == [miner |-> n, work |-> WorkAfter(chain[n]), next |-> next,
                   txs |-> Chosen(mempool[n], chain[n])]
  <2>2. b.work \in Works /\ b.next \in Works
    BY <1>0, TemplateWorks
  <2>3. template' = [template EXCEPT ![n] = Append(chain[n], b)]
    BY <2>1
  <2> HIDE DEF b
  <2>4. Weighed(Append(chain[n], b))
    BY <1>0, <2>2, WeighedAppend
  <2>5. UNCHANGED <<chain, posts, disk, sync, announced>>
    BY <1>1 DEF BlockTemplate
  <2>6. SyncFits(n)'
    BY <1>0, <2>5 DEF SyncFits, IsRecord
  <2>7. sync' = [sync EXCEPT ![n] = sync[n]]
    BY <2>5, Same
  <2> QED BY <2>3, <2>4, <2>5, <2>6, <2>7, StandStill
<1>2. CASE MineBlock(n)
  <2>1. /\ CanAppend(chain[n], template[n])
        /\ chain' = [chain EXCEPT ![n] = template[n]]
        /\ AddPost(n, template[n], "miner")
        /\ template' = [template EXCEPT ![n] = << >>]
        /\ UNCHANGED <<disk, sync, announced>>
    BY <1>2 DEF MineBlock, SetChain
  <2>2. /\ Work(template[n]) \in Nat /\ Work(template[n]) >= Work(chain[n])
        /\ Len(template[n]) = Len(chain[n]) + 1
    BY <1>0, <2>1, AppendGrows
  <2> QED BY <1>0, <2>1, <2>2, WeighedEmpty, GrowFits
<1>3. CASE DropTemplate(n)
  <2>1. /\ template' = [template EXCEPT ![n] = << >>]
        /\ UNCHANGED <<chain, posts, disk, sync, announced>>
    BY <1>3 DEF DropTemplate
  <2>2. SyncFits(n)'
    BY <1>0, <2>1 DEF SyncFits, IsRecord
  <2>3. sync' = [sync EXCEPT ![n] = sync[n]]
    BY <2>1, Same
  <2> QED BY <2>1, <2>2, <2>3, WeighedEmpty, StandStill
<1> QED BY <1>1, <1>2, <1>3

\* Blocks from peers, and what becomes of blocks added.
LEMMA BlockStep ==
  ASSUME IInv, NEW n \in Nodes,
         \/ \E a \in announced : AcceptBlock(n, a)
         \/ \E p \in posts[n] : Persist(n, p) \/ Announce(n, p)
  PROVE  IInv'
<1>0. SyncFits(n) /\ Weighed(chain[n]) /\ Weighed(template[n])
  BY WorksOf
<1>1. ASSUME NEW a \in announced, AcceptBlock(n, a) PROVE IInv'
  <2>1. /\ CanAppend(chain[n], a.chain)
        /\ chain' = [chain EXCEPT ![n] = a.chain]
        /\ AddPost(n, a.chain, "peer")
        /\ UNCHANGED <<template, disk, sync, announced>>
    BY <1>1 DEF AcceptBlock, SetChain
  <2>2. Weighed(a.chain)
    BY <1>1 DEF IInv, AnnouncedFits
  <2>3. /\ Work(a.chain) \in Nat /\ Work(a.chain) >= Work(chain[n])
        /\ Len(a.chain) = Len(chain[n]) + 1
    BY <2>1, <2>2, AppendGrows
  <2>4. template' = [template EXCEPT ![n] = template[n]]
    BY <2>1, Same
  <2> QED BY <1>0, <2>1, <2>2, <2>3, <2>4, GrowFits
<1>2. ASSUME NEW p \in posts[n], Persist(n, p) PROVE IInv'
  <2> DEFINE q == (posts[n] \ {p}) \cup {[p EXCEPT !.saved = TRUE]}
  <2>1. /\ disk' = [disk EXCEPT ![n] = chain[n]]
        /\ posts' = [posts EXCEPT ![n] = q]
        /\ UNCHANGED <<chain, template, sync, announced>>
    BY <1>2 DEF Persist
  <2>2. \A o \in posts[n] : o = [chain |-> o.chain, by |-> o.by, saved |-> o.saved]
    BY WorksOf DEF PostFits
  <2>3. [p EXCEPT !.saved = TRUE] = [chain |-> p.chain, by |-> p.by, saved |-> TRUE]
    <3>1. PICK x, y, z : p = [chain |-> x, by |-> y, saved |-> z]
      BY <2>2
    <3>2. \A w : [[chain |-> x, by |-> y, saved |-> z] EXCEPT !.saved = w]
                  = [chain |-> x, by |-> y, saved |-> w]
      OBVIOUS
    <3>3. p.chain = x /\ p.by = y
      BY <3>1
    <3> QED BY <3>1, <3>2, <3>3, Zenon
  <2>4. \A r \in q : /\ r = [chain |-> r.chain, by |-> r.by, saved |-> r.saved]
                     /\ \E o \in posts[n] : o.chain = r.chain
    BY <2>2, <2>3
  <2>5. SyncFits(n)'
    BY <1>0, <2>1 DEF SyncFits, IsRecord
  <2>6. sync' = [sync EXCEPT ![n] = sync[n]]
    BY <2>1, Same
  <2> HIDE DEF q
  <2> QED BY <2>1, <2>4, <2>5, <2>6, SaveFits
<1>3. ASSUME NEW p \in posts[n], Announce(n, p) PROVE IInv'
  <2> DEFINE q == posts[n] \ {p}
             d == disk[n]
  <2>1. /\ announced' = announced \cup {[from |-> n, chain |-> p.chain]}
        /\ posts' = [posts EXCEPT ![n] = q]
        /\ p.saved
        /\ UNCHANGED <<chain, template, disk, sync>>
    BY <1>3 DEF Announce
  <2>2. Weighed(p.chain) /\ Work(disk[n]) >= Work(p.chain)
    <3>1. PostFits(n, p) /\ Work(p.chain) \in Nat /\ Work(disk[n]) \in Nat
      BY WorksOf
    <3> QED BY <2>1, <3>1 DEF PostFits
  <2>3. \A a \in announced' \ announced :
           a.from = n /\ Weighed(a.chain) /\ Work(d) >= Work(a.chain)
    BY <2>1, <2>2
  <2>4. /\ chain' = [chain EXCEPT ![n] = chain[n]]
        /\ template' = [template EXCEPT ![n] = template[n]]
        /\ disk' = [disk EXCEPT ![n] = d]
        /\ sync' = [sync EXCEPT ![n] = sync[n]]
        /\ posts'[n] = q
    BY <2>1, Same, Given
  <2>5. NodeFits(n)'
    BY <2>1, <2>4, WorksOf DEF NodeFits, SyncFits, IsRecord, PostFits
  <2>6. Work(d) >= Work(disk[n]) /\ Weighed(d)
    BY WorksOf
  <2>7. posts' = [posts EXCEPT ![n] = q]
    BY <2>1
  <2> HIDE DEF q, d
  <2> QED BY <2>7, <2>3, <2>4, <2>5, <2>6, Assemble
<1> QED BY <1>1, <1>2, <1>3

\* The two fields of a sync that the walk back changes,
LEMMA WalkRecord ==
  ASSUME NEW s, IsRecord(s), NEW h, NEW k
  PROVE  [s EXCEPT !.h = h, !.step = k]
           = [stage |-> s.stage, peer |-> s.peer, top |-> s.top, h |-> h,
              step |-> k, got |-> s.got]
<1>1. PICK stage, peer, top, i, j, got :
        s = [stage |-> stage, peer |-> peer, top |-> top, h |-> i, step |-> j, got |-> got]
  BY DEF IsRecord
<1>2. [[stage |-> stage, peer |-> peer, top |-> top, h |-> i, step |-> j, got |-> got]
         EXCEPT !.h = h]
        = [stage |-> stage, peer |-> peer, top |-> top, h |-> h, step |-> j, got |-> got]
  OBVIOUS
<1>3. [[stage |-> stage, peer |-> peer, top |-> top, h |-> h, step |-> j, got |-> got]
         EXCEPT !.step = k]
        = [stage |-> stage, peer |-> peer, top |-> top, h |-> h, step |-> k, got |-> got]
  OBVIOUS
<1>4. [s EXCEPT !.h = h, !.step = k] = [[s EXCEPT !.h = h] EXCEPT !.step = k]
  OBVIOUS
<1>5. s.stage = stage /\ s.peer = peer /\ s.top = top /\ s.got = got
  BY <1>1
<1> QED BY <1>1, <1>2, <1>3, <1>4, <1>5, Zenon

\* Asking, walking back, and looking at headers change nothing but the sync.
LEMMA AskStep ==
  ASSUME IInv, NEW n \in Nodes,
         \/ \E p \in Peers[n] : SyncStatus(n, p)
         \/ SyncWalk(n) \/ SyncHeaders(n) \/ SyncFail(n)
  PROVE  IInv'
<1>0. /\ SyncFits(n) /\ Weighed(template[n]) /\ Len(chain[n]) \in Nat
      /\ template = [template EXCEPT ![n] = template[n]]
  BY WorksOf, WeighedBlocks, Same
<1>1. ASSUME NEW p \in Peers[n], SyncStatus(n, p) PROVE IInv'
  <2> DEFINE s == [stage |-> "walk", peer |-> p, top |-> Len(chain[p]),
                   h |-> Minimum(Len(chain[n]), Len(chain[p])), step |-> 1,
                   got |-> << >>]
  <2>1. sync' = [sync EXCEPT ![n] = s] /\ UNCHANGED <<chain, template, posts, disk, announced>>
    BY <1>1 DEF SyncStatus, GoTo
  <2>2. p \in Nodes
    BY NodeAssumption
  <2>3. Len(chain[p]) \in Nat
    BY <2>2, WorksOf, WeighedBlocks
  <2>4. Minimum(Len(chain[n]), Len(chain[p])) \in 0..Len(chain[n])
    BY <1>0, <2>3 DEF Minimum
  <2>5. sync'[n] = s
    BY <2>1, Given
  <2>6. SyncFits(n)'
    BY <2>1, <2>2, <2>3, <2>4, <2>5, WeighedEmpty DEF SyncFits, IsRecord
  <2> HIDE DEF s
  <2> QED BY <1>0, <2>1, <2>6, StandStill
<1>2. ASSUME NEW stage \in {"idle", "refused"}, GoTo(n, NoSync(n, stage)),
             UNCHANGED <<chain, template, posts, disk, announced>>
      PROVE  IInv'
  <2>1. sync' = [sync EXCEPT ![n] = NoSync(n, stage)] /\ sync'[n] = NoSync(n, stage)
    BY <1>2, Given DEF GoTo
  <2>2. SyncFits(n)'
    BY <2>1, NoSyncFits
  <2> QED BY <1>0, <1>2, <2>1, <2>2, StandStill
<1>3. ASSUME NEW stage \in {"walk", "headers", "bodies"}, NEW h \in 0..Len(chain[n]),
             NEW back \in Nat,
             GoTo(n, [stage |-> stage, peer |-> sync[n].peer, top |-> sync[n].top,
                      h |-> h, step |-> back, got |-> sync[n].got]),
             UNCHANGED <<chain, template, posts, disk, announced>>
      PROVE  IInv'
  <2> DEFINE s == [stage |-> stage, peer |-> sync[n].peer, top |-> sync[n].top,
                   h |-> h, step |-> back, got |-> sync[n].got]
  <2>1. sync' = [sync EXCEPT ![n] = s] /\ sync'[n] = s
    BY <1>3, Given DEF GoTo
  <2>2. SyncFits(n)'
    BY <1>0, <1>3, <2>1 DEF SyncFits, IsRecord
  <2> HIDE DEF s
  <2> QED BY <1>0, <1>3, <2>1, <2>2, StandStill
<1>4. CASE SyncWalk(n)
  <2>1. sync[n].stage = "walk" /\ UNCHANGED <<chain, template, posts, disk, announced>>
    BY <1>4 DEF SyncWalk
  <2>2. /\ sync[n].h \in 0..Len(chain[n]) /\ sync[n].step \in Nat
        /\ sync[n] = [stage |-> "walk", peer |-> sync[n].peer, top |-> sync[n].top,
                      h |-> sync[n].h, step |-> sync[n].step, got |-> sync[n].got]
    BY <1>0, <2>1 DEF SyncFits, IsRecord
  <2> DEFINE h == Maximum(0, sync[n].h - sync[n].step)
  <2>3. CASE GoTo(n, [sync[n] EXCEPT !.h = h, !.step = 2 * @])
    <3>1. h \in 0..Len(chain[n]) /\ 2 * sync[n].step \in Nat
      BY <1>0, <2>2 DEF Maximum
    <3>2. [sync[n] EXCEPT !.h = h, !.step = 2 * @]
            = [stage |-> "walk", peer |-> sync[n].peer, top |-> sync[n].top,
               h |-> h, step |-> 2 * sync[n].step, got |-> sync[n].got]
      <4> DEFINE k == 2 * sync[n].step
      <4> HIDE DEF h, k
      <4>1. IsRecord(sync[n]) /\ sync[n].stage = "walk"
        BY <1>0, <2>1 DEF SyncFits
      <4>2. [sync[n] EXCEPT !.h = h, !.step = k]
              = [stage |-> sync[n].stage, peer |-> sync[n].peer, top |-> sync[n].top,
                 h |-> h, step |-> k, got |-> sync[n].got]
        BY <4>1, WalkRecord
      <4> QED BY <4>1, <4>2, Zenon DEF k
    <3> DEFINE twice == 2 * sync[n].step
    <3>3. GoTo(n, [stage |-> "walk", peer |-> sync[n].peer, top |-> sync[n].top,
                   h |-> h, step |-> twice, got |-> sync[n].got])
      BY <2>3, <3>2
    <3>4. h \in 0..Len(chain[n]) /\ twice \in Nat
      BY <3>1
    <3> HIDE DEF h, twice
    <3> QED BY <1>3, <2>1, <3>3, <3>4
  <2>4. CASE GoTo(n, NoSync(n, "refused"))
    BY <1>2, <2>1, <2>4
  <2>5. CASE GoTo(n, [sync[n] EXCEPT !.stage = "headers"])
    <3>1. [sync[n] EXCEPT !.stage = "headers"]
            = [stage |-> "headers", peer |-> sync[n].peer, top |-> sync[n].top,
               h |-> sync[n].h, step |-> sync[n].step, got |-> sync[n].got]
      BY <2>2
    <3> QED BY <1>3, <2>1, <2>2, <2>5, <3>1
  <2> QED BY <1>4, <2>3, <2>4, <2>5 DEF SyncWalk
<1>5. CASE SyncHeaders(n)
  <2>1. sync[n].stage = "headers" /\ UNCHANGED <<chain, template, posts, disk, announced>>
    BY <1>5 DEF SyncHeaders
  <2>2. /\ sync[n].h \in 0..Len(chain[n]) /\ sync[n].step \in Nat
        /\ sync[n] = [stage |-> "headers", peer |-> sync[n].peer, top |-> sync[n].top,
                      h |-> sync[n].h, step |-> sync[n].step, got |-> sync[n].got]
    BY <1>0, <2>1 DEF SyncFits, IsRecord
  <2>3. CASE GoTo(n, [sync[n] EXCEPT !.stage = "bodies"])
    <3>1. [sync[n] EXCEPT !.stage = "bodies"]
            = [stage |-> "bodies", peer |-> sync[n].peer, top |-> sync[n].top,
               h |-> sync[n].h, step |-> sync[n].step, got |-> sync[n].got]
      BY <2>2
    <3> QED BY <1>3, <2>1, <2>2, <2>3, <3>1
  <2>4. CASE GoTo(n, NoSync(n, "idle"))
    BY <1>2, <2>1, <2>4
  <2> QED BY <1>5, <2>3, <2>4 DEF SyncHeaders
<1>6. CASE SyncFail(n)
  BY <1>2, <1>6 DEF SyncFail
<1> QED BY <1>1, <1>4, <1>5, <1>6

\* What a sync assembles is weighed: part of the own chain, part of the peer's.
LEMMA OfferWeighed ==
  ASSUME IInv, NEW n \in Nodes, sync[n].stage = "bodies"
  PROVE  Weighed(Offer(n))
<1>1. /\ SyncFits(n) /\ sync[n].peer \in Nodes /\ sync[n].top \in Nat
      /\ sync[n].h \in 0..Len(chain[n]) /\ Len(chain[n]) \in Nat
  BY WorksOf, WeighedBlocks DEF SyncFits
<1>2. Weighed(Peer(n)) /\ Len(Peer(n)) \in Nat
  BY <1>1, WorksOf, WeighedBlocks DEF Peer
<1>3. Weighed(Prefix(chain[n], sync[n].h))
  <2>1. Weighed(chain[n])
    BY WorksOf
  <2> QED BY <1>1, <2>1, WeighedPart DEF Prefix
<1>4. Weighed(Page(n))
  <2>1. Minimum(sync[n].top, Len(Peer(n))) \in 0..Len(Peer(n))
    BY <1>1, <1>2 DEF Minimum
  <2>2. sync[n].h + 1 \in Nat \ {0}
    BY <1>1
  <2> QED BY <1>2, <2>1, <2>2, WeighedPart DEF Page
<1> QED BY <1>3, <1>4, WeighedConcat DEF Offer

\* and the two that fetching blocks changes.
LEMMA BodiesRecord ==
  ASSUME NEW s, IsRecord(s), NEW a, NEW g
  PROVE  [s EXCEPT !.stage = a, !.got = g]
           = [stage |-> a, peer |-> s.peer, top |-> s.top, h |-> s.h,
              step |-> s.step, got |-> g]
<1>1. PICK stage, peer, top, i, j, got :
        s = [stage |-> stage, peer |-> peer, top |-> top, h |-> i, step |-> j, got |-> got]
  BY DEF IsRecord
<1>2. [[stage |-> stage, peer |-> peer, top |-> top, h |-> i, step |-> j, got |-> got]
         EXCEPT !.stage = a]
        = [stage |-> a, peer |-> peer, top |-> top, h |-> i, step |-> j, got |-> got]
  OBVIOUS
<1>3. [[stage |-> a, peer |-> peer, top |-> top, h |-> i, step |-> j, got |-> got]
         EXCEPT !.got = g]
        = [stage |-> a, peer |-> peer, top |-> top, h |-> i, step |-> j, got |-> g]
  OBVIOUS
<1>4. [s EXCEPT !.stage = a, !.got = g] = [[s EXCEPT !.stage = a] EXCEPT !.got = g]
  OBVIOUS
<1>5. s.peer = peer /\ s.top = top /\ s.h = i /\ s.step = j
  BY <1>1
<1> QED BY <1>1, <1>2, <1>3, <1>4, <1>5, Zenon

\* Fetching the peer's blocks keeps the invariant.
LEMMA BodiesStep ==
  ASSUME IInv, NEW n \in Nodes, SyncBodies(n)
  PROVE  IInv'
<1>0. /\ SyncFits(n) /\ Weighed(template[n])
      /\ template' = [template EXCEPT ![n] = template[n]]
      /\ sync[n].stage = "bodies"
      /\ UNCHANGED <<chain, posts, disk, announced>>
  BY WorksOf, Same DEF SyncBodies
<1> DEFINE a == IF sync[n].h = Len(chain[n]) THEN "extend" ELSE "replace"
           t == [stage |-> a, peer |-> sync[n].peer, top |-> sync[n].top,
                 h |-> sync[n].h, step |-> sync[n].step, got |-> Offer(n)]
<1>1. CASE GoTo(n, [sync[n] EXCEPT !.stage = a, !.got = Offer(n)])
  <2>1. [sync[n] EXCEPT !.stage = a, !.got = Offer(n)] = t
    <3> HIDE DEF a
    <3> QED BY <1>0, BodiesRecord DEF SyncFits
  <2>2. sync' = [sync EXCEPT ![n] = t] /\ sync'[n] = t
    <3>1. sync' = [sync EXCEPT ![n] = t]
      BY <1>1, <2>1 DEF GoTo
    <3> HIDE DEF t
    <3> QED BY <3>1, Given
  <2>3. a \notin {"walk", "headers", "bodies"}
    OBVIOUS
  <2>4. Weighed(Offer(n))
    BY <1>0, OfferWeighed
  <2>5. SyncFits(n)'
    <3> HIDE DEF a
    <3> QED BY <1>0, <2>2, <2>3, <2>4 DEF SyncFits, IsRecord
  <2> HIDE DEF t, a
  <2> QED BY <1>0, <2>2, <2>5, StandStill
<1>2. CASE GoTo(n, NoSync(n, "idle"))
  <2>1. sync' = [sync EXCEPT ![n] = NoSync(n, "idle")] /\ sync'[n] = NoSync(n, "idle")
    BY <1>2, Given DEF GoTo
  <2>2. SyncFits(n)'
    BY <2>1, NoSyncFits
  <2> QED BY <1>0, <2>1, <2>2, StandStill
<1>3. GoTo(n, [sync[n] EXCEPT !.stage = a, !.got = Offer(n)]) \/ GoTo(n, NoSync(n, "idle"))
  BY DEF SyncBodies
<1> QED BY <1>1, <1>2, <1>3

\* A sync puts a chain that is no lighter in the place of n's.
LEMMA AdoptFits ==
  ASSUME IInv, NEW n \in Nodes, NEW c, NEW s,
         Weighed(c), Work(c) \in Nat, Work(c) >= Work(chain[n]),
         chain' = [chain EXCEPT ![n] = c],
         sync' = [sync EXCEPT ![n] = s],
         SyncFits(n)',
         UNCHANGED <<template, posts, disk, announced>>
  PROVE  IInv'
<1>1. /\ chain'[n] = c
      /\ template' = [template EXCEPT ![n] = template[n]]
      /\ posts' = [posts EXCEPT ![n] = posts[n]]
      /\ disk' = [disk EXCEPT ![n] = disk[n]]
  BY Same, Given
<1>2. ASSUME NEW p \in posts[n] PROVE PostFits(n, p)'
  <2>1. PostFits(n, p) /\ Work(p.chain) \in Nat /\ Work(chain[n]) \in Nat
    BY WorksOf
  <2> QED BY <1>1, <2>1 DEF PostFits
<1>3. NodeFits(n)'
  <2>1. /\ Weighed(template[n]) /\ Weighed(disk[n]) /\ Work(disk[n]) <= Work(c)
    BY WorksOf
  <2> QED BY <1>1, <1>2, <2>1 DEF NodeFits
<1>4. Work(disk[n]) >= Work(disk[n]) /\ Weighed(disk[n])
  BY WorksOf
<1> QED BY <1>1, <1>3, <1>4, Assemble

\* Adding a fetched block keeps the invariant.
LEMMA ExtendStep ==
  ASSUME IInv, NEW n \in Nodes, SyncExtend(n)
  PROVE  IInv'
<1> DEFINE c == Prefix(sync[n].got, sync[n].h + 1)
           s == [stage |-> "extend", peer |-> sync[n].peer, top |-> sync[n].top,
                 h |-> sync[n].h + 1, step |-> sync[n].step, got |-> sync[n].got]
<1>0. /\ SyncFits(n) /\ Weighed(template[n])
      /\ template' = [template EXCEPT ![n] = template[n]]
      /\ sync[n].stage = "extend" /\ sync[n].h < Len(sync[n].got)
      /\ UNCHANGED <<template, posts, disk, announced>>
  BY WorksOf, Same DEF SyncExtend
<1>1. CASE CanAppend(chain[n], c)
  <2>1. /\ chain' = [chain EXCEPT ![n] = c]
        /\ GoTo(n, [sync[n] EXCEPT !.h = @ + 1])
    BY <1>1 DEF SyncExtend, SetChain
  <2>2. [sync[n] EXCEPT !.h = @ + 1] = s
    <3> DEFINE k == sync[n].h + 1
    <3> HIDE DEF k
    <3>1. PICK stage, peer, top, i, j, got :
            sync[n] = [stage |-> stage, peer |-> peer, top |-> top, h |-> i, step |-> j, got |-> got]
      BY <1>0 DEF SyncFits, IsRecord
    <3>2. [[stage |-> stage, peer |-> peer, top |-> top, h |-> i, step |-> j, got |-> got]
             EXCEPT !.h = k]
            = [stage |-> stage, peer |-> peer, top |-> top, h |-> k, step |-> j, got |-> got]
      OBVIOUS
    <3>3. sync[n].peer = peer /\ sync[n].top = top /\ sync[n].step = j /\ sync[n].got = got
          /\ sync[n].stage = stage
      BY <3>1
    <3> QED BY <1>0, <3>1, <3>2, <3>3, Zenon DEF k
  <2>3. sync' = [sync EXCEPT ![n] = s] /\ sync'[n] = s
    <3>1. sync' = [sync EXCEPT ![n] = s]
      BY <2>1, <2>2 DEF GoTo
    <3> HIDE DEF s
    <3> QED BY <3>1, Given
  <2>4. SyncFits(n)'
    BY <1>0, <2>3 DEF SyncFits, IsRecord
  <2>5. Weighed(c)
    <3>1. /\ Weighed(sync[n].got) /\ sync[n].h \in Nat /\ Len(sync[n].got) \in Nat
      BY <1>0, WeighedBlocks DEF SyncFits
    <3>2. sync[n].h + 1 \in 0..Len(sync[n].got)
      BY <1>0, <3>1
    <3>3. 1 \in Nat \ {0}
      OBVIOUS
    <3>4. Weighed(SubSeq(sync[n].got, 1, sync[n].h + 1))
      BY ONLY <3>1, <3>2, <3>3, WeighedPart
    <3> QED BY <3>4 DEF Prefix
  <2> HIDE DEF c, s
  <2>6. Work(c) \in Nat /\ Work(c) >= Work(chain[n])
    BY <1>1, <2>5, AppendGrows
  <2> QED BY <1>0, <2>1, <2>3, <2>4, <2>5, <2>6, AdoptFits
<1>2. CASE ~CanAppend(chain[n], c)
  <2>1. GoTo(n, NoSync(n, "idle")) /\ UNCHANGED chain
    BY <1>2 DEF SyncExtend
  <2>2. sync' = [sync EXCEPT ![n] = NoSync(n, "idle")] /\ sync'[n] = NoSync(n, "idle")
    BY <2>1, Given DEF GoTo
  <2>3. SyncFits(n)'
    BY <2>2, NoSyncFits
  <2> QED BY <1>0, <2>1, <2>2, <2>3, StandStill
<1> QED BY <1>1, <1>2

\* Adopting the peer's chain keeps the invariant.
LEMMA ReplaceStep ==
  ASSUME IInv, NEW n \in Nodes, SyncReplace(n)
  PROVE  IInv'
<1> DEFINE c == sync[n].got
<1>0. /\ Weighed(template[n]) /\ Weighed(c) /\ Work(c) \in Nat
      /\ template' = [template EXCEPT ![n] = template[n]]
      /\ UNCHANGED <<template, posts, disk, announced>>
  BY WorksOf, WorkNat, Same DEF SyncReplace, SyncFits
<1>1. ASSUME NEW stage \in {"idle", "refused", "save"}, GoTo(n, NoSync(n, stage))
      PROVE  /\ sync' = [sync EXCEPT ![n] = NoSync(n, stage)]
             /\ SyncFits(n)'
  <2>1. sync' = [sync EXCEPT ![n] = NoSync(n, stage)] /\ sync'[n] = NoSync(n, stage)
    BY <1>1, Given DEF GoTo
  <2> QED BY <2>1, NoSyncFits
<1>2. CASE CanReplace(chain[n], c)
  <2>1. chain' = [chain EXCEPT ![n] = c] /\ GoTo(n, NoSync(n, "save"))
    BY <1>2 DEF SyncReplace, SetChain
  <2>2. sync' = [sync EXCEPT ![n] = NoSync(n, "save")] /\ SyncFits(n)'
    BY <1>1, <2>1
  <2>3. Work(c) >= Work(chain[n])
    <3>1. Work(chain[n]) \in Nat
      BY WorksOf
    <3> QED BY <1>0, <1>2, <3>1 DEF CanReplace, Heavier
  <2> HIDE DEF c
  <2> QED BY <1>0, <2>1, <2>2, <2>3, AdoptFits
<1>3. CASE ~CanReplace(chain[n], c)
  <2>1. UNCHANGED chain /\ (GoTo(n, NoSync(n, "refused")) \/ GoTo(n, NoSync(n, "idle")))
    BY <1>3 DEF SyncReplace
  <2> QED BY <1>0, <1>1, <2>1, StandStill
<1> QED BY <1>2, <1>3

\* The save at the end of a sync keeps the invariant.
LEMMA SaveStep ==
  ASSUME IInv, NEW n \in Nodes, SyncSave(n)
  PROVE  IInv'
<1>1. /\ disk' = [disk EXCEPT ![n] = chain[n]]
      /\ sync' = [sync EXCEPT ![n] = NoSync(n, "idle")]
      /\ UNCHANGED <<chain, template, posts, announced>>
  BY DEF SyncSave, GoTo
<1>2. SyncFits(n)'
  BY <1>1, Given, NoSyncFits
<1>3. posts' = [posts EXCEPT ![n] = posts[n]]
  BY <1>1, Same
<1>4. \A p \in posts[n] : /\ p = [chain |-> p.chain, by |-> p.by, saved |-> p.saved]
                          /\ \E o \in posts[n] : o.chain = p.chain
  BY WorksOf DEF PostFits
<1> QED BY <1>1, <1>2, <1>3, <1>4, SaveFits

\* The process ends, with or without a last save, and starts again.
LEMMA RestartStep ==
  ASSUME IInv, NEW n \in Nodes, Crash(n) \/ Stop(n)
  PROVE  IInv'
<1>1. ASSUME NEW c, Weighed(c), Reload(n, c),
             disk' = [disk EXCEPT ![n] = c], Work(c) >= Work(disk[n])
      PROVE  IInv'
  <2>1. /\ chain' = [chain EXCEPT ![n] = c]
        /\ template' = [template EXCEPT ![n] = << >>]
        /\ posts' = [posts EXCEPT ![n] = {}]
        /\ sync' = [sync EXCEPT ![n] = NoSync(n, "idle")]
        /\ announced' = announced
    BY <1>1 DEF Reload
  <2>2. /\ chain'[n] = c /\ template'[n] = << >> /\ posts'[n] = {} /\ disk'[n] = c
        /\ sync'[n] = NoSync(n, "idle")
    BY <1>1, <2>1, Given
  <2>3. SyncFits(n)'
    BY <2>2, NoSyncFits
  <2>4. Work(c) \in Nat
    BY <1>1, WorkNat
  <2>5. NodeFits(n)'
    BY <1>1, <2>2, <2>3, <2>4, WeighedEmpty DEF NodeFits
  <2> QED BY <1>1, <2>1, <2>5, Assemble
<1>2. CASE Crash(n)
  <2>1. Reload(n, disk[n]) /\ disk' = [disk EXCEPT ![n] = disk[n]]
    BY <1>2, Same DEF Crash
  <2>2. Weighed(disk[n]) /\ Work(disk[n]) >= Work(disk[n])
    BY WorksOf
  <2> QED BY <1>1, <2>1, <2>2
<1>3. CASE Stop(n)
  <2>1. Reload(n, chain[n]) /\ disk' = [disk EXCEPT ![n] = chain[n]]
    BY <1>3 DEF Stop
  <2>2. Weighed(chain[n]) /\ Work(chain[n]) >= Work(disk[n])
    BY WorksOf
  <2> QED BY <1>1, <2>1, <2>2
<1> QED BY <1>2, <1>3

\* Every step of every node keeps the invariant.
LEMMA NextInv == IInv /\ [Next]_vars => IInv'
<1> SUFFICES ASSUME IInv, [Next]_vars PROVE IInv'
  OBVIOUS
<1>1. ASSUME NEW n \in Nodes, NodeStep(n) PROVE IInv'
  <2>1. CASE \E t \in Txs : SubmitTx(n, t)
    BY <2>1, Unmoved DEF SubmitTx
  <2>2. CASE BlockTemplate(n) \/ MineBlock(n) \/ DropTemplate(n)
    BY <2>2, MiningStep
  <2>3. CASE \/ \E a \in announced : AcceptBlock(n, a)
             \/ \E p \in posts[n] : Persist(n, p) \/ Announce(n, p)
    BY <2>3, BlockStep
  <2>4. CASE \/ \E p \in Peers[n] : SyncStatus(n, p)
             \/ SyncWalk(n) \/ SyncHeaders(n) \/ SyncFail(n)
    BY <2>4, AskStep
  <2>5. CASE SyncBodies(n)
    BY <2>5, BodiesStep
  <2>6. CASE SyncExtend(n)
    BY <2>6, ExtendStep
  <2>7. CASE SyncReplace(n)
    BY <2>7, ReplaceStep
  <2>8. CASE SyncSave(n)
    BY <2>8, SaveStep
  <2>9. CASE Crash(n) \/ Stop(n)
    BY <2>9, RestartStep
  <2> QED BY <1>1, <2>1, <2>2, <2>3, <2>4, <2>5, <2>6, <2>7, <2>8, <2>9
          DEF NodeStep, SyncStep
<1>2. CASE UNCHANGED vars
  BY <1>2, Unmoved DEF vars
<1> QED BY <1>1, <1>2 DEF Next

\* A node that crashes, at any moment and in the middle of anything its
\* threads do, comes back with at least the work of every block it announced.
THEOREM AnnouncedStaysDurable == Spec => []AnnouncedIsDurable
<1>1. IInv => AnnouncedIsDurable
  BY DEF IInv
<1> QED BY <1>1, InitInv, NextInv, PTL DEF Spec

----------------------------------------------------------------------------
(* Fork choice. *)

\* The instance of ForkChoice has its own copy of the definitions of Chain.
LEMMA SameForkChoice ==
  ASSUME NEW c, NEW d
  PROVE  /\ FC!Extends(c, d) <=> Extends(c, d)
         /\ FC!Heavier(c, d) <=> Heavier(c, d)
         /\ FC!ReorgAllowed(c, d) <=> ReorgAllowed(c, d)
<1>1. FC!Extends(c, d) <=> Extends(c, d)
  BY DEF FC!Extends, Extends, FC!Prefix, Prefix
<1>2. \A x : FC!Work(x) = Work(x)
  <2>1. ASSUME NEW f, NEW S PROVE FC!Total(f, S) = Total(f, S)
    <3>1. FC!Units(f, S) = Units(f, S)
      BY DEF FC!Units, Units
    <3>2. \A T : FC!Cardinality(T) = Cardinality(T)
      BY DEF FC!Cardinality, Cardinality
    <3> QED BY <3>1, <3>2 DEF FC!Total, Total
  <2> TAKE x
  <2> DEFINE f == [h \in DOMAIN x |-> x[h].work]
  <2>2. FC!Work(x) = FC!Total(f, DOMAIN x) /\ Work(x) = Total(f, DOMAIN x)
    BY DEF FC!Work, Work
  <2> HIDE DEF f
  <2> QED BY <2>1, <2>2
<1>3. FC!Heavier(c, d) <=> Heavier(c, d)
  BY <1>2 DEF FC!Heavier, Heavier
<1>4. FC!ForkPoint(c, d) = ForkPoint(c, d)
  BY DEF FC!ForkPoint, ForkPoint, FC!Max, Max, FC!Minimum, Minimum, FC!Prefix, Prefix
<1>5. FC!ReorgAllowed(c, d) <=> ReorgAllowed(c, d)
  BY <1>4 DEF FC!ReorgAllowed, ReorgAllowed
<1> QED BY <1>1, <1>3, <1>5

\* A node's chain grows by a block.
LEMMA Grows ==
  ASSUME Shape, NEW n \in Nodes, NEW c, CanAppend(chain[n], c),
         chain' = [chain EXCEPT ![n] = c], UNCHANGED disk
  PROVE  FC!Grow(n)
BY SameForkChoice DEF Shape, FC!Grow, FC!Only, CanAppend

\* Taking a heavier chain within the limit is an adoption of fork choice.
LEMMA Adopts ==
  ASSUME Shape, NEW n \in Nodes, NEW c, CanReplace(chain[n], c),
         chain' = [chain EXCEPT ![n] = c], UNCHANGED disk
  PROVE  FC!Adopt(n)
BY SameForkChoice DEF Shape, FC!Adopt, FC!Only, CanReplace

\* Every step of a node is one of fork choice, or nothing to it.
LEMMA StepImplements ==
  ASSUME Shape, NEW n \in Nodes, NodeStep(n)
  PROVE  FC!Next \/ UNCHANGED <<chain, disk>>
<1>1. CASE \/ \E t \in Txs : SubmitTx(n, t)
           \/ BlockTemplate(n) \/ DropTemplate(n)
           \/ \E p \in posts[n] : Announce(n, p)
           \/ \E p \in Peers[n] : SyncStatus(n, p)
           \/ SyncWalk(n) \/ SyncHeaders(n) \/ SyncBodies(n) \/ SyncFail(n)
  BY <1>1 DEF SubmitTx, BlockTemplate, DropTemplate, Announce, SyncStatus, SyncWalk,
              SyncHeaders, SyncBodies, SyncFail
<1>2. CASE MineBlock(n)
  BY <1>2, Grows DEF MineBlock, SetChain, FC!Next
<1>3. CASE \E a \in announced : AcceptBlock(n, a)
  BY <1>3, Grows DEF AcceptBlock, SetChain, FC!Next
<1>4. CASE SyncExtend(n)
  BY <1>4, Grows DEF SyncExtend, SetChain, FC!Next
<1>5. CASE SyncReplace(n)
  BY <1>5, Adopts DEF SyncReplace, SetChain, FC!Next
<1>6. CASE (\E p \in posts[n] : Persist(n, p)) \/ SyncSave(n)
  BY <1>6 DEF Persist, SyncSave, FC!Save, FC!Next
<1>7. CASE Crash(n)
  BY <1>7 DEF Crash, Reload, FC!Restart, FC!Next
<1>8. CASE Stop(n)
  <2>1. chain' = chain /\ disk' = [disk EXCEPT ![n] = chain[n]]
    BY <1>8 DEF Stop, Reload, Shape
  <2> QED BY <2>1 DEF FC!Save, FC!Next
<1> QED BY <1>1, <1>2, <1>3, <1>4, <1>5, <1>6, <1>7, <1>8 DEF NodeStep, SyncStep

\* Whatever the threads of the nodes do to each other, a chain only grows by
\* a block or yields to a heavier one within MaxReorgDepth, and only a restart
\* goes back, to what was saved.
THEOREM NodeImplementsForkChoice == Spec => ImplementsForkChoice
<1>1. Init => FC!Init
  BY DEF Init, FC!Init
<1>2. IInv /\ [Next]_vars => [FC!Next]_(FC!vars)
  <2>1. CASE UNCHANGED vars
    BY <2>1 DEF vars, FC!vars
  <2>2. ASSUME IInv, NEW n \in Nodes, NodeStep(n) PROVE [FC!Next]_(FC!vars)
    BY <2>2, StepImplements DEF IInv, FC!vars
  <2> QED BY <2>1, <2>2 DEF Next
<1> QED BY <1>1, <1>2, InitInv, NextInv, PTL DEF Spec, ImplementsForkChoice, FC!Spec

----------------------------------------------------------------------------
(* Numbers, and what is computed step by step.                              *)

\* Less than is well-founded: a set of numbers has a least one,
LEMMA Least ==
  ASSUME NEW T, T \subseteq Nat, T # {}
  PROVE  \E x \in T : \A y \in T : x <= y
<1> DEFINE R == {ss \in Nat \X Nat : ss[1] < ss[2]}
<1>1. IsWellFoundedOn(R, Nat)
  BY NatLessThanWellFounded DEF OpToRel
<1>2. \A x, y \in Nat : y < x => <<y, x>> \in R
  OBVIOUS
<1> HIDE DEF R
<1>3. PICK x \in T : \A y \in T : ~ (<<y, x>> \in R)
  BY <1>1, WFMin
<1>4. ASSUME NEW y \in T PROVE x <= y
  <2>1. x \in Nat /\ y \in Nat
    OBVIOUS
  <2>2. ~ (y < x)
    BY <1>2, <1>3, <2>1
  <2> QED BY <2>1, <2>2
<1> QED BY <1>4

\* and one counts up to any number.
LEMMA CountUp ==
  ASSUME NEW n \in Nat, NEW S, 0 \in S,
         \A i \in 1..n : i - 1 \in S => i \in S
  PROVE  \A i \in 0..n : i \in S
<1> DEFINE T == {i \in 0..n : i \notin S}
<1> SUFFICES ASSUME T # {} PROVE FALSE
  OBVIOUS
<1>1. PICK x \in T : \A y \in T : x <= y
  <2>1. T \subseteq Nat
    OBVIOUS
  <2> HIDE DEF T
  <2> QED BY <2>1, Least
<1>2. x \in 1..n
  OBVIOUS
<1>3. x - 1 \in 0..n /\ x - 1 \notin T
  BY <1>1, <1>2
<1> QED BY <1>2, <1>3

\* f starts from b, and its entry i is what go makes of the one before.
StepsFrom(b, go, n, W, f) ==
  /\ f \in [0..n -> W]
  /\ f[0] = b
  /\ \A i \in 1..n : f[i] = go[<<f[i - 1], i>>]

\* go stays in W.
Closed(go, n, W) == \A x \in W, i \in 1..n : go[<<x, i>>] \in W

\* What is computed step by step exists.
LEMMA StepByStep ==
  ASSUME NEW n \in Nat, NEW W, NEW b \in W, NEW go, Closed(go, n, W)
  PROVE  \E f : StepsFrom(b, go, n, W, f)
<1> DEFINE S == {m \in 0..n : \E f : StepsFrom(b, go, m, W, f)}
<1>1. 0 \in S
  <2> DEFINE f == [i \in 0..0 |-> b]
  <2>1. f \in [0..0 -> W]
    OBVIOUS
  <2>2. f[0] = b /\ 1..0 = {}
    OBVIOUS
  <2>3. StepsFrom(b, go, 0, W, f)
    BY ONLY <2>1, <2>2 DEF StepsFrom
  <2>4. 0 \in 0..n
    OBVIOUS
  <2> HIDE DEF f
  <2> QED BY <2>3, <2>4
<1>2. ASSUME NEW m \in 1..n, m - 1 \in S PROVE m \in S
  <2>1. PICK f : StepsFrom(b, go, m - 1, W, f)
    BY <1>2
  <2> DEFINE g == [i \in 0..m |-> IF i < m THEN f[i] ELSE go[<<f[m - 1], m>>]]
  <2>2. m \in Nat /\ m - 1 \in Nat /\ f[m - 1] \in W
    BY <2>1 DEF StepsFrom
  <2>3. go[<<f[m - 1], m>>] \in W
    BY <2>2 DEF Closed
  <2>4. g \in [0..m -> W] /\ g[0] = b
    <3>1. ASSUME NEW i \in 0..m
          PROVE  (IF i < m THEN f[i] ELSE go[<<f[m - 1], m>>]) \in W
      <4>1. CASE i < m
        <5>1. i \in 0..(m - 1)
          BY <2>2, <4>1
        <5> QED BY <2>1, <4>1, <5>1 DEF StepsFrom
      <4> QED BY <2>3, <4>1
    <3>2. 0 \in 0..m /\ 0 < m
      BY <2>2
    <3> QED BY <2>1, <3>1, <3>2 DEF StepsFrom
  <2>5. ASSUME NEW i \in 1..m PROVE g[i] = go[<<g[i - 1], i>>]
    <3>1. CASE i = m
      <4>1. g[i] = go[<<f[m - 1], m>>] /\ g[i - 1] = f[m - 1]
        BY <2>2, <3>1
      <4> QED BY <3>1, <4>1
    <3>2. CASE i # m
      <4>1. i \in 1..(m - 1) /\ g[i] = f[i] /\ g[i - 1] = f[i - 1]
        BY <2>2, <3>2
      <4> QED BY <2>1, <4>1 DEF StepsFrom
    <3> QED BY <3>1, <3>2
  <2> HIDE DEF g
  <2>6. StepsFrom(b, go, m, W, g)
    BY <2>4, <2>5 DEF StepsFrom
  <2> QED BY <2>6
<1>3. \A i \in 0..n : i \in S
  <2> HIDE DEF S
  <2> QED BY <1>1, <1>2, CountUp
<1> QED BY <1>3

----------------------------------------------------------------------------
(* Mempools: what _rebuild_mempool and block_template compute.              *)

\* The transactions of a chain are some of Txs,
LEMMA ConfirmedType ==
  ASSUME NEW c \in Seq(Block)
  PROVE  /\ Confirmed(c) \subseteq Txs /\ IsFiniteSet(Confirmed(c))
         /\ StateNonces(c) \in [Senders -> Nat]
<1>1. Confirmed(c) \subseteq Txs
  <2> SUFFICES ASSUME NEW h \in DOMAIN c PROVE ToSet(c[h].txs) \subseteq Txs
    BY DEF Confirmed
  <2>1. c[h] \in Block
    BY ElementOfSeq
  <2>2. c[h].txs \in Seq(Txs)
    BY <2>1 DEF Block
  <2> QED BY <2>2 DEF ToSet
<1>2. IsFiniteSet(Confirmed(c))
  BY <1>1, FS_Subset, ChainAssumption
<1>3. ASSUME NEW s \in Senders
      PROVE  Cardinality({t \in Confirmed(c) : Sender[t] = s}) \in Nat
  BY <1>2, FS_Subset, FS_CardinalityType
<1> QED BY <1>1, <1>2, <1>3 DEF StateNonces

\* and so are those of a mempool.
LEMMA EmptyPoolType ==
  ASSUME NEW c \in Seq(Block)
  PROVE  /\ EmptyPool(c) \in Mempool
         /\ EmptyPool(c).txs = << >> /\ EmptyPool(c).next = StateNonces(c)
<1>1. << >> \in Seq(Txs)
  BY EmptySeq
<1> QED BY <1>1, ConfirmedType DEF EmptyPool, Mempool

\* One more transaction in a mempool,
LEMMA AddType ==
  ASSUME NEW pool \in Mempool, NEW t \in Txs
  PROVE  /\ Add(pool, t) \in Mempool
         /\ Add(pool, t).txs = Append(pool.txs, t)
         /\ \A s \in Senders : Add(pool, t).next[s]
                                 = IF s = Sender[t] THEN pool.next[s] + 1 ELSE pool.next[s]
<1>1. pool.txs \in Seq(Txs) /\ pool.next \in [Senders -> Nat] /\ Sender[t] \in Senders
  BY DEF Mempool, Senders
<1>2. Append(pool.txs, t) \in Seq(Txs)
  BY <1>1, AppendProperties
<1>3. /\ Applied(pool.next, t) \in [Senders -> Nat]
      /\ \A s \in Senders : Applied(pool.next, t)[s]
                              = IF s = Sender[t] THEN pool.next[s] + 1 ELSE pool.next[s]
  BY <1>1 DEF Applied
<1> HIDE DEF Applied
<1> QED BY <1>2, <1>3 DEF Add, Mempool

\* and the transactions it has.
LEMMA PendingType ==
  ASSUME NEW pool \in Mempool
  PROVE  Len(pool.txs) \in Nat /\ pool.txs \in [1..Len(pool.txs) -> Txs]
<1> DEFINE txs == pool.txs
<1>1. txs \in Seq(Txs)
  BY DEF Mempool
<1> HIDE DEF txs
<1>2. Len(txs) \in Nat /\ txs \in [1..Len(txs) -> Txs]
  BY <1>1, LenProperties
<1> QED BY <1>2 DEF txs

\* f goes through txs and adds those that Good accepts to b.
FillsBy(f, n, txs, b, Good) ==
  /\ f \in [0..n -> Mempool]
  /\ f[0] = b
  /\ \A i \in 1..n : /\ <<f[i - 1], i>> \in Good => f[i] = Add(f[i - 1], txs[i])
                     /\ <<f[i - 1], i>> \notin Good => f[i] = f[i - 1]

\* There is such an f.
LEMMA FillingExists ==
  ASSUME NEW n \in Nat, NEW txs \in [1..n -> Txs], NEW b \in Mempool, NEW Good
  PROVE  \E f : FillsBy(f, n, txs, b, Good)
<1> DEFINE go == [x \in Mempool \X (1..n) |->
                      IF x \in Good THEN Add(x[1], txs[x[2]]) ELSE x[1]]
<1>1. \A p \in Mempool, i \in 1..n :
        go[<<p, i>>] = IF <<p, i>> \in Good THEN Add(p, txs[i]) ELSE p
  OBVIOUS
<1> HIDE DEF go
<1>2. ASSUME NEW p \in Mempool, NEW i \in 1..n PROVE go[<<p, i>>] \in Mempool
  <2>1. Add(p, txs[i]) \in Mempool
    BY AddType
  <2> QED BY <1>1, <2>1
<1>3. PICK f : StepsFrom(b, go, n, Mempool, f)
  BY <1>2, StepByStep DEF Closed
<1>4. f \in [0..n -> Mempool] /\ f[0] = b
  BY <1>3 DEF StepsFrom
<1>5. ASSUME NEW i \in 1..n
      PROVE  /\ <<f[i - 1], i>> \in Good => f[i] = Add(f[i - 1], txs[i])
             /\ <<f[i - 1], i>> \notin Good => f[i] = f[i - 1]
  <2>1. f[i - 1] \in Mempool
    BY <1>4
  <2>2. f[i] = go[<<f[i - 1], i>>]
    BY <1>3 DEF StepsFrom
  <2> QED BY <1>1, <2>1, <2>2
<1> QED BY <1>4, <1>5 DEF FillsBy

\* Whatever goes through txs this way goes from mempool to mempool.
LEMMA FillingType ==
  ASSUME NEW n \in Nat, NEW txs \in [1..n -> Txs], NEW b \in Mempool, NEW g,
         g = [i \in 0..n |-> g[i]], g[0] = b,
         \A i \in 1..n : g[i] = Add(g[i - 1], txs[i]) \/ g[i] = g[i - 1]
  PROVE  g \in [0..n -> Mempool]
<1> DEFINE S == {i \in 0..n : g[i] \in Mempool}
<1>1. 0 \in S
  OBVIOUS
<1>2. ASSUME NEW i \in 1..n, i - 1 \in S PROVE i \in S
  <2>1. g[i - 1] \in Mempool /\ txs[i] \in Txs /\ i \in 0..n
    BY <1>2
  <2>2. Add(g[i - 1], txs[i]) \in Mempool
    BY <2>1, AddType
  <2> QED BY <2>1, <2>2
<1> HIDE DEF S
<1>3. \A i \in 0..n : i \in S
  BY <1>1, <1>2, CountUp
<1> QED BY <1>3 DEF S

\* f adds some of txs to b, each where its nonce is the next one, L at most.
Fills(f, n, txs, b, L) ==
  /\ f \in [0..n -> Mempool]
  /\ f[0] = b
  /\ \A i \in 1..n : \/ f[i] = f[i - 1]
                     \/ /\ Applies(f[i - 1].next, txs[i])
                        /\ Len(f[i - 1].txs) < L
                        /\ f[i] = Add(f[i - 1], txs[i])

\* _rebuild_mempool goes through the mempool this way,
LEMMA RebuiltFills ==
  ASSUME NEW pool \in Mempool, NEW c \in Seq(Block)
  PROVE  \E f : /\ Fills(f, Len(pool.txs), pool.txs, EmptyPool(c), MaxMempoolTxs)
                /\ Rebuilt(pool, c) = f[Len(pool.txs)]
<1> DEFINE n == Len(pool.txs)
           txs == pool.txs
           b == EmptyPool(c)
           Taken(acc, t) == CanAdd(acc, c, t)
           Good == {x \in Mempool \X (1..n) : Taken(x[1], txs[x[2]])}
           Is(f) == f = [i \in 0..n |->
                           IF i = 0 THEN b
                           ELSE IF Taken(f[i - 1], txs[i])
                                THEN Add(f[i - 1], txs[i])
                                ELSE f[i - 1]]
<1>1. n \in Nat /\ txs \in [1..n -> Txs] /\ b \in Mempool
  BY PendingType, EmptyPoolType
<1>2. PICK f : FillsBy(f, n, txs, b, Good)
  <2> HIDE DEF n, txs, b, Good
  <2> QED BY <1>1, FillingExists
<1>3. Is(f)
  <2>1. f \in [0..n -> Mempool] /\ f[0] = b
    BY <1>2 DEF FillsBy
  <2>2. ASSUME NEW i \in 0..n, i # 0
        PROVE  f[i] = IF Taken(f[i - 1], txs[i]) THEN Add(f[i - 1], txs[i]) ELSE f[i - 1]
    <3>1. i \in 1..n /\ f[i - 1] \in Mempool
      <4>1. i \in 1..n /\ i - 1 \in 0..n
        BY <1>1, <2>2
      <4> QED BY <2>1, <4>1
    <3>2. <<f[i - 1], i>> \in Good <=> Taken(f[i - 1], txs[i])
      BY <3>1
    <3> HIDE DEF n, txs, b, Good, Taken
    <3> QED BY <1>2, <3>1, <3>2 DEF FillsBy
  <2> HIDE DEF n, txs, b, Taken
  <2> QED BY <2>1, <2>2, Zenon
<1> DEFINE g == CHOOSE g : Is(g)
<1>4. Is(g)
  BY <1>3, Zenon
<1>5. Rebuilt(pool, c) = g[n]
  BY DEF Rebuilt, Filled
<1> HIDE DEF g
<1>6. /\ g = [i \in 0..n |-> g[i]] /\ g[0] = b
      /\ \A i \in 1..n : \/ Taken(g[i - 1], txs[i]) /\ g[i] = Add(g[i - 1], txs[i])
                         \/ g[i] = g[i - 1]
  <2>1. /\ g = [i \in 0..n |-> g[i]]
        /\ \A i \in 0..n : g[i] = IF i = 0 THEN b
                                  ELSE IF Taken(g[i - 1], txs[i])
                                       THEN Add(g[i - 1], txs[i])
                                       ELSE g[i - 1]
    <3> HIDE DEF b, txs, n, Taken
    <3> QED BY <1>4, Zenon
  <2>2. 0 \in 0..n /\ \A i \in 1..n : i \in 0..n /\ i # 0
    BY <1>1
  <2> HIDE DEF b, txs, n, Taken
  <2> QED BY <2>1, <2>2, Zenon
<1>7. g \in [0..n -> Mempool]
  <2> HIDE DEF b, txs, n, Taken
  <2> QED BY <1>1, <1>6, FillingType
<1>8. Fills(g, n, txs, b, MaxMempoolTxs)
  <2> HIDE DEF b, txs, n
  <2> QED BY <1>6, <1>7 DEF Fills, CanAdd, HasRoom
<1> QED BY <1>5, <1>8

\* and block_template too.
LEMMA ChosenFills ==
  ASSUME NEW pool \in Mempool, NEW c \in Seq(Block)
  PROVE  \E f : /\ Fills(f, Len(pool.txs), pool.txs, EmptyPool(c), MaxBlockTxs)
                /\ Chosen(pool, c) = f[Len(pool.txs)].txs
<1> DEFINE n == Len(pool.txs)
           txs == pool.txs
           b == EmptyPool(c)
           Taken(acc, t) == Len(acc.txs) < MaxBlockTxs /\ Applies(acc.next, t)
           Good == {x \in Mempool \X (1..n) : Taken(x[1], txs[x[2]])}
           Is(f) == f = [i \in 0..n |->
                           IF i = 0 THEN b
                           ELSE IF Taken(f[i - 1], txs[i])
                                THEN Add(f[i - 1], txs[i])
                                ELSE f[i - 1]]
<1>1. n \in Nat /\ txs \in [1..n -> Txs] /\ b \in Mempool
  BY PendingType, EmptyPoolType
<1>2. PICK f : FillsBy(f, n, txs, b, Good)
  <2> HIDE DEF n, txs, b, Good
  <2> QED BY <1>1, FillingExists
<1>3. Is(f)
  <2>1. f \in [0..n -> Mempool] /\ f[0] = b
    BY <1>2 DEF FillsBy
  <2>2. ASSUME NEW i \in 0..n, i # 0
        PROVE  f[i] = IF Taken(f[i - 1], txs[i]) THEN Add(f[i - 1], txs[i]) ELSE f[i - 1]
    <3>1. i \in 1..n /\ f[i - 1] \in Mempool
      <4>1. i \in 1..n /\ i - 1 \in 0..n
        BY <1>1, <2>2
      <4> QED BY <2>1, <4>1
    <3>2. <<f[i - 1], i>> \in Good <=> Taken(f[i - 1], txs[i])
      BY <3>1
    <3> HIDE DEF n, txs, b, Good, Taken
    <3> QED BY <1>2, <3>1, <3>2 DEF FillsBy
  <2> HIDE DEF n, txs, b, Taken
  <2> QED BY <2>1, <2>2, Zenon
<1> DEFINE g == CHOOSE g : Is(g)
<1>4. Is(g)
  BY <1>3, Zenon
<1>5. Chosen(pool, c) = g[n].txs
  BY DEF Chosen, Filled
<1> HIDE DEF g
<1>6. /\ g = [i \in 0..n |-> g[i]] /\ g[0] = b
      /\ \A i \in 1..n : \/ Taken(g[i - 1], txs[i]) /\ g[i] = Add(g[i - 1], txs[i])
                         \/ g[i] = g[i - 1]
  <2>1. /\ g = [i \in 0..n |-> g[i]]
        /\ \A i \in 0..n : g[i] = IF i = 0 THEN b
                                  ELSE IF Taken(g[i - 1], txs[i])
                                       THEN Add(g[i - 1], txs[i])
                                       ELSE g[i - 1]
    <3> HIDE DEF b, txs, n, Taken
    <3> QED BY <1>4, Zenon
  <2>2. 0 \in 0..n /\ \A i \in 1..n : i \in 0..n /\ i # 0
    BY <1>1
  <2> HIDE DEF b, txs, n, Taken
  <2> QED BY <2>1, <2>2, Zenon
<1>7. g \in [0..n -> Mempool]
  <2> HIDE DEF b, txs, n, Taken
  <2> QED BY <1>1, <1>6, FillingType
<1>8. Fills(g, n, txs, b, MaxBlockTxs)
  <2> HIDE DEF b, txs, n
  <2> QED BY <1>6, <1>7 DEF Fills
<1> QED BY <1>5, <1>8

----------------------------------------------------------------------------
(* The nonces of a run of transactions.                                     *)

\* The transactions of s in T have the nonces from `from` up to `to`, each
\* once and in order.
Runs(T, s, from, to) ==
  /\ from <= to
  /\ \A i \in 1..Len(T) : Sender[T[i]] = s => from <= Nonce[T[i]] /\ Nonce[T[i]] < to
  /\ \A k \in Nat : from <= k /\ k < to
                      => \E i \in 1..Len(T) : Sender[T[i]] = s /\ Nonce[T[i]] = k
  /\ \A i, j \in 1..Len(T) : Sender[T[i]] = s /\ Sender[T[j]] = s /\ i < j
                               => Nonce[T[i]] < Nonce[T[j]]

\* The transactions of T bring the nonces of every sender from base to next.
Follows(base, T, next) == \A s \in Senders : Runs(T, s, base[s], next[s])

\* Nothing follows from nothing,
LEMMA RunsEmpty ==
  ASSUME NEW s, NEW k \in Nat
  PROVE  Runs(<< >>, s, k, k)
<1>1. Len(<< >>) = 0
  BY EmptySeq
<1> QED BY <1>1 DEF Runs

\* and a transaction that applies comes next.
LEMMA RunsAdd ==
  ASSUME NEW T \in Seq(Txs), NEW t \in Txs, NEW s, NEW k \in Nat, NEW m \in Nat,
         Runs(T, s, k, m), Sender[t] = s => Nonce[t] = m
  PROVE  Runs(Append(T, t), s, k, IF Sender[t] = s THEN m + 1 ELSE m)
<1> DEFINE l == Len(T)
           U == Append(T, t)
           to == IF Sender[t] = s THEN m + 1 ELSE m
<1>1. /\ l \in Nat /\ Len(U) = l + 1 /\ U[l + 1] = t
      /\ \A i \in 1..l : U[i] = T[i] /\ T[i] \in Txs
  BY AppendProperties, LenProperties, ElementOfSeq
<1>2. Nonce[t] \in Nat /\ \A i \in 1..l : Nonce[T[i]] \in Nat
  BY <1>1, ChainAssumption
<1> HIDE DEF U
<1>3. \A i \in 1..(l + 1) : i \in 1..l \/ i = l + 1
  BY <1>1
<1>4. k <= m
  BY DEF Runs
<1>5. ASSUME NEW i \in 1..(l + 1), Sender[U[i]] = s
      PROVE  k <= Nonce[U[i]] /\ Nonce[U[i]] < to
  <2>1. CASE i \in 1..l
    <3>1. k <= Nonce[T[i]] /\ Nonce[T[i]] < m
      BY <1>1, <1>5, <2>1 DEF Runs
    <3> QED BY <1>1, <1>2, <2>1, <3>1
  <2>2. CASE i = l + 1
    BY <1>1, <1>2, <1>4, <1>5, <2>2
  <2> QED BY <1>3, <2>1, <2>2
<1>6. ASSUME NEW j \in Nat, k <= j, j < to
      PROVE  \E i \in 1..(l + 1) : Sender[U[i]] = s /\ Nonce[U[i]] = j
  <2>1. CASE j < m
    <3>1. PICK i \in 1..l : Sender[T[i]] = s /\ Nonce[T[i]] = j
      BY <1>6, <2>1 DEF Runs
    <3> QED BY <1>1, <3>1
  <2>2. CASE ~(j < m)
    <3>1. Sender[t] = s /\ j = m
      BY <1>6, <2>2
    <3> QED BY <1>1, <3>1
  <2> QED BY <2>1, <2>2
<1>7. ASSUME NEW i \in 1..(l + 1), NEW j \in 1..(l + 1),
             Sender[U[i]] = s, Sender[U[j]] = s, i < j
      PROVE  Nonce[U[i]] < Nonce[U[j]]
  <2>1. i \in 1..l
    BY <1>1, <1>7
  <2>2. CASE j \in 1..l
    BY <1>1, <1>7, <2>1, <2>2 DEF Runs
  <2>3. CASE j = l + 1
    <3>1. Nonce[T[i]] < m
      BY <1>1, <1>7, <2>1 DEF Runs
    <3> QED BY <1>1, <1>7, <2>1, <2>3, <3>1
  <2> QED BY <1>3, <2>2, <2>3
<1>8. k <= to
  BY <1>4
<1> HIDE DEF to, l
<1>9. Runs(U, s, k, to)
  BY <1>1, <1>5, <1>6, <1>7, <1>8 DEF Runs
<1> QED BY <1>9 DEF U, to

\* So for every sender of a mempool.
LEMMA FollowsAdd ==
  ASSUME NEW base \in [Senders -> Nat], NEW pool \in Mempool, NEW t \in Txs,
         Follows(base, pool.txs, pool.next), Applies(pool.next, t)
  PROVE  Follows(base, Add(pool, t).txs, Add(pool, t).next)
<1> SUFFICES ASSUME NEW s \in Senders
             PROVE  Runs(Add(pool, t).txs, s, base[s], Add(pool, t).next[s])
  BY DEF Follows
<1>1. /\ pool.txs \in Seq(Txs) /\ pool.next[s] \in Nat /\ base[s] \in Nat
      /\ Runs(pool.txs, s, base[s], pool.next[s])
  BY DEF Mempool, Follows
<1>2. Sender[t] = s => Nonce[t] = pool.next[s]
  BY DEF Applies
<1>3. Runs(Append(pool.txs, t), s, base[s],
           IF Sender[t] = s THEN pool.next[s] + 1 ELSE pool.next[s])
  BY <1>1, <1>2, RunsAdd
<1>4. Add(pool, t).txs = Append(pool.txs, t)
  BY AddType
<1>5. Add(pool, t).next[s] = IF Sender[t] = s THEN pool.next[s] + 1 ELSE pool.next[s]
  BY AddType
<1> QED BY <1>3, <1>4, <1>5

\* What was filled follows the chain it was filled for, and keeps to the limit.
LEMMA FillsFollow ==
  ASSUME NEW n \in Nat, NEW txs \in [1..n -> Txs], NEW L \in Nat,
         NEW c \in Seq(Block), NEW f, Fills(f, n, txs, EmptyPool(c), L)
  PROVE  /\ f[n] \in Mempool
         /\ Follows(StateNonces(c), f[n].txs, f[n].next)
         /\ Len(f[n].txs) <= L
<1> DEFINE Good(p) == /\ p \in Mempool
                      /\ Follows(StateNonces(c), p.txs, p.next)
                      /\ Len(p.txs) <= L
           S == {i \in 0..n : Good(f[i])}
<1>0. StateNonces(c) \in [Senders -> Nat]
  BY ConfirmedType
<1>1. Good(f[0])
  <2>1. /\ EmptyPool(c) \in Mempool
        /\ EmptyPool(c).txs = << >> /\ EmptyPool(c).next = StateNonces(c)
    BY EmptyPoolType
  <2>2. Len(<< >>) = 0
    BY EmptySeq
  <2>3. Follows(StateNonces(c), << >>, StateNonces(c))
    BY <1>0, RunsEmpty DEF Follows
  <2>4. f[0] = EmptyPool(c)
    BY DEF Fills
  <2> QED BY <2>1, <2>2, <2>3, <2>4
<1>2. ASSUME NEW i \in 1..n, Good(f[i - 1]) PROVE Good(f[i])
  <2>1. CASE f[i] = f[i - 1]
    BY <1>2, <2>1
  <2>2. CASE /\ Applies(f[i - 1].next, txs[i]) /\ Len(f[i - 1].txs) < L
             /\ f[i] = Add(f[i - 1], txs[i])
    <3>1. txs[i] \in Txs /\ f[i - 1] \in Mempool
      BY <1>2
    <3>2. Follows(StateNonces(c), f[i].txs, f[i].next)
      BY <1>0, <1>2, <2>2, <3>1, FollowsAdd
    <3>3. f[i] \in Mempool /\ f[i].txs = Append(f[i - 1].txs, txs[i])
      <4>1. f[i] = Add(f[i - 1], txs[i])
        BY <2>2
      <4> QED BY ONLY <3>1, <4>1, AddType
    <3>4. f[i - 1].txs \in Seq(Txs)
      BY <3>1 DEF Mempool
    <3>5. Len(f[i].txs) = Len(f[i - 1].txs) + 1 /\ Len(f[i - 1].txs) \in Nat
      BY <3>1, <3>3, <3>4, AppendProperties, LenProperties
    <3>6. Len(f[i].txs) <= L
      BY <2>2, <3>5
    <3> QED BY <3>2, <3>3, <3>6
  <2> QED BY <2>1, <2>2 DEF Fills
<1> HIDE DEF Good
<1>3. \A i \in 0..n : i \in S
  <2>1. 0 \in S /\ \A i \in 1..n : i - 1 \in S => i \in S
    BY <1>1, <1>2
  <2> HIDE DEF S
  <2> QED BY <2>1, CountUp
<1>4. Good(f[n])
  BY <1>3
<1> QED BY <1>4 DEF Good

\* What _rebuild_mempool leaves pending follows the chain,
LEMMA RebuiltFollows ==
  ASSUME NEW pool \in Mempool, NEW c \in Seq(Block)
  PROVE  /\ Rebuilt(pool, c) \in Mempool
         /\ Follows(StateNonces(c), Rebuilt(pool, c).txs, Rebuilt(pool, c).next)
         /\ Len(Rebuilt(pool, c).txs) <= MaxMempoolTxs
<1>1. PICK f : /\ Fills(f, Len(pool.txs), pool.txs, EmptyPool(c), MaxMempoolTxs)
               /\ Rebuilt(pool, c) = f[Len(pool.txs)]
  BY RebuiltFills
<1>2. MaxMempoolTxs \in Nat
  BY ChainAssumption
<1>3. Len(pool.txs) \in Nat /\ pool.txs \in [1..Len(pool.txs) -> Txs]
  BY PendingType
<1> QED BY <1>1, <1>2, <1>3, FillsFollow

\* and so does what block_template chooses.
LEMMA ChosenFollows ==
  ASSUME NEW pool \in Mempool, NEW c \in Seq(Block)
  PROVE  /\ Chosen(pool, c) \in Seq(Txs)
         /\ Len(Chosen(pool, c)) <= MaxBlockTxs
         /\ \E next \in [Senders -> Nat] : Follows(StateNonces(c), Chosen(pool, c), next)
<1>1. PICK f : /\ Fills(f, Len(pool.txs), pool.txs, EmptyPool(c), MaxBlockTxs)
               /\ Chosen(pool, c) = f[Len(pool.txs)].txs
  BY ChosenFills
<1> DEFINE p == f[Len(pool.txs)]
<1>2. /\ p \in Mempool /\ Len(p.txs) <= MaxBlockTxs
      /\ Follows(StateNonces(c), p.txs, p.next)
  BY <1>1, PendingType, FillsFollow, ChainAssumption
<1>3. p.txs \in Seq(Txs) /\ p.next \in [Senders -> Nat]
  BY <1>2 DEF Mempool
<1> HIDE DEF p
<1>4. Chosen(pool, c) = p.txs
  BY <1>1 DEF p
<1> QED BY <1>2, <1>3, <1>4

\* The transactions of s in a run are as many as their nonces.
LEMMA RunCounts ==
  ASSUME NEW T \in Seq(Txs), NEW s, NEW from \in Nat, NEW to \in Nat,
         Runs(T, s, from, to)
  PROVE  /\ IsFiniteSet({t \in ToSet(T) : Sender[t] = s})
         /\ Cardinality({t \in ToSet(T) : Sender[t] = s}) = to - from
<1> DEFINE Y == {t \in ToSet(T) : Sender[t] = s}
           N == from..(to - 1)
           l == Len(T)
           f == [t \in Y |-> Nonce[t]]
<1>1. l \in Nat /\ DOMAIN T = 1..l /\ \A i \in 1..l : T[i] \in Txs /\ Nonce[T[i]] \in Nat
  BY LenProperties, ElementOfSeq, ChainAssumption
<1>2. \A t \in Y : \E i \in 1..l : t = T[i] /\ Sender[T[i]] = s
  BY <1>1 DEF ToSet
<1>3. \A i \in 1..l : Sender[T[i]] = s => T[i] \in Y
  BY <1>1 DEF ToSet
<1> HIDE DEF Y, l
<1>4. from <= to
  BY DEF Runs
<1>5. ASSUME NEW t \in Y PROVE f[t] \in N
  <2>1. PICK i \in 1..l : t = T[i] /\ Sender[T[i]] = s
    BY <1>2
  <2>2. from <= Nonce[T[i]] /\ Nonce[T[i]] < to
    BY <2>1 DEF Runs, l
  <2>3. Nonce[t] \in N
    BY <1>1, <2>1, <2>2
  <2> QED BY <2>3
<1>6. ASSUME NEW t \in Y, NEW u \in Y, f[t] = f[u] PROVE t = u
  <2>1. PICK i \in 1..l : t = T[i] /\ Sender[T[i]] = s
    BY <1>2
  <2>2. PICK j \in 1..l : u = T[j] /\ Sender[T[j]] = s
    BY <1>2
  <2>3. Nonce[T[i]] = Nonce[T[j]] /\ Nonce[T[i]] \in Nat
    BY <1>1, <1>6, <2>1, <2>2
  <2>4. ~ (i < j) /\ ~ (j < i)
    BY <2>1, <2>2, <2>3 DEF Runs, l
  <2>5. i = j
    BY <1>1, <2>4
  <2> QED BY <2>1, <2>2, <2>5
<1>7. ASSUME NEW k \in N PROVE \E t \in Y : f[t] = k
  <2>1. k \in Nat /\ from <= k /\ k < to
    OBVIOUS
  <2>2. PICK i \in 1..l : Sender[T[i]] = s /\ Nonce[T[i]] = k
    BY <2>1 DEF Runs, l
  <2>3. T[i] \in Y /\ f[T[i]] = k
    BY <1>3, <2>2
  <2> QED BY <2>3
<1>8. f \in Injection(Y, N) /\ f \in Surjection(Y, N)
  <2>1. f = [t \in Y |-> f[t]] /\ DOMAIN f = Y
    OBVIOUS
  <2> HIDE DEF f, N
  <2>2. f \in [Y -> N]
    BY <1>5, <2>1
  <2>3. IsInjective(f)
    BY <1>6, <2>1 DEF IsInjective
  <2> QED BY <1>7, <2>2, <2>3 DEF Injection, Surjection
<1>9. IsFiniteSet(N) /\ Cardinality(N) = to - from
  <2>1. from \in Int /\ to - 1 \in Int
    OBVIOUS
  <2>2. /\ IsFiniteSet(from..(to - 1))
        /\ Cardinality(from..(to - 1)) = IF from > to - 1 THEN 0 ELSE to - 1 - from + 1
    BY ONLY <2>1, FS_Interval
  <2> QED BY <1>4, <2>2
<1> HIDE DEF f, N
<1> QED BY <1>8, <1>9, FS_Injection DEF Y

\* A block whose transactions are new and follow the chain brings the nonces
\* of the state to where they end.
LEMMA BodyCounts ==
  ASSUME NEW c \in Seq(Block), NEW d, NEW T \in Seq(Txs), NEW next \in [Senders -> Nat],
         Follows(StateNonces(c), T, next),
         ToSet(T) \cap Confirmed(c) = {}, Confirmed(d) = Confirmed(c) \cup ToSet(T)
  PROVE  StateNonces(d) = next
<1>1. ASSUME NEW s \in Senders
      PROVE  Cardinality({t \in Confirmed(d) : Sender[t] = s}) = next[s]
  <2> DEFINE X == {t \in Confirmed(c) : Sender[t] = s}
             Y == {t \in ToSet(T) : Sender[t] = s}
             k == StateNonces(c)[s]
  <2>1. k = Cardinality(X) /\ k \in Nat /\ IsFiniteSet(X)
    <3>1. IsFiniteSet(Confirmed(c)) /\ X \subseteq Confirmed(c)
      BY ConfirmedType
    <3>2. k = Cardinality(X)
      BY DEF StateNonces
    <3>3. k \in Nat
      BY ConfirmedType
    <3> HIDE DEF X, k
    <3> QED BY <3>1, <3>2, <3>3, FS_Subset
  <2>2. next[s] \in Nat /\ Runs(T, s, k, next[s])
    BY DEF Follows
  <2>3. IsFiniteSet(Y) /\ Cardinality(Y) = next[s] - k
    BY <2>1, <2>2, RunCounts
  <2>4. X \cap Y = {} /\ {t \in Confirmed(d) : Sender[t] = s} = X \cup Y
    OBVIOUS
  <2> HIDE DEF X, Y, k
  <2>4a. Cardinality(X) \in Nat /\ Cardinality(Y) \in Nat
    BY <2>1, <2>3, FS_CardinalityType
  <2>5. Cardinality(X \cup Y) = Cardinality(X) + Cardinality(Y)
    <3>1. Cardinality(X \cap Y) = 0
      BY <2>4, FS_EmptySet
    <3>2. Cardinality(X \cup Y) = Cardinality(X) + Cardinality(Y) - Cardinality(X \cap Y)
      BY <2>1, <2>3, FS_Union
    <3> QED BY <2>4a, <3>1, <3>2
  <2>6. Cardinality(X \cup Y) = next[s]
    BY <2>1, <2>2, <2>3, <2>4a, <2>5
  <2> QED BY <2>4, <2>6
<1>2. StateNonces(d) = [s \in Senders |-> next[s]]
  BY <1>1 DEF StateNonces
<1> QED BY <1>2

----------------------------------------------------------------------------
(* Chains whose every block was taken, and the history they make.           *)

\* A block that add_block takes brings the nonces of the state from those of
\* the chain below it to those of the chain it ends.
LEMMA BodyFollows ==
  ASSUME NEW c \in Seq(Block), NEW b \in Block, ValidBody(c, b), NEW d,
         Confirmed(d) = Confirmed(c) \cup ToSet(b.txs)
  PROVE  /\ Len(b.txs) <= MaxBlockTxs
         /\ Follows(StateNonces(c), b.txs, StateNonces(d))
<1> DEFINE pool == [EmptyPool(c) EXCEPT !.txs = b.txs]
<1>1. b.txs \in Seq(Txs)
  BY DEF Block
<1>2. pool \in Mempool
  BY <1>1, EmptyPoolType DEF EmptyPool, Mempool
<1>3. Chosen(pool, c) = b.txs /\ ToSet(b.txs) \cap Confirmed(c) = {}
  BY DEF ValidBody
<1> HIDE DEF pool
<1>4. PICK next \in [Senders -> Nat] : Follows(StateNonces(c), b.txs, next)
  BY <1>2, <1>3, ChosenFollows
<1>5. StateNonces(d) = next
  BY <1>1, <1>3, <1>4, BodyCounts
<1>6. Len(b.txs) <= MaxBlockTxs
  BY <1>2, <1>3, ChosenFollows
<1> QED BY <1>4, <1>5, <1>6

\* Every block of c was taken on top of those below it.
Valid(c) == \A h \in 1..Len(c) : ValidBody(Prefix(c, h - 1), c[h])

\* The blocks below a height, and the one at it.
LEMMA BelowAndAt ==
  ASSUME NEW c \in Seq(Block), NEW h \in 1..Len(c)
  PROVE  /\ c[h] \in Block /\ Prefix(c, h - 1) \in Seq(Block) /\ Prefix(c, h) \in Seq(Block)
         /\ Confirmed(Prefix(c, h)) = Confirmed(Prefix(c, h - 1)) \cup ToSet(c[h].txs)
<1>1. Len(c) \in Nat /\ \A i \in 1..Len(c) : c[i] \in Block
  BY ElementOfSeq, LenProperties
<1>2. ASSUME NEW j \in 0..Len(c)
      PROVE  /\ Prefix(c, j) \in Seq(Block) /\ DOMAIN Prefix(c, j) = 1..j
             /\ \A i \in 1..j : Prefix(c, j)[i] = c[i]
  <2>1. /\ SubSeq(c, 1, j) \in Seq(Block)
        /\ Len(SubSeq(c, 1, j)) = IF 1 <= j THEN j - 1 + 1 ELSE 0
        /\ \A i \in 1..(j - 1 + 1) : SubSeq(c, 1, j)[i] = c[1 + i - 1]
    <3>1. \A i \in 1..j : c[i] \in Block
      BY <1>1
    <3>2. 1 \in Int /\ j \in Int
      BY <1>1
    <3> QED BY <3>1, <3>2, SubSeqProperties
  <2>2. Len(Prefix(c, j)) = j
    BY <1>1, <2>1 DEF Prefix
  <2>3. DOMAIN Prefix(c, j) = 1..j
    BY <2>1, <2>2, LenProperties DEF Prefix
  <2> QED BY <1>1, <2>1, <2>3 DEF Prefix
<1>3. h - 1 \in 0..Len(c) /\ h \in 0..Len(c)
  BY <1>1
<1>4. Confirmed(Prefix(c, h)) = UNION {ToSet(c[i].txs) : i \in 1..h}
  BY <1>2, <1>3 DEF Confirmed
<1>5. Confirmed(Prefix(c, h - 1)) = UNION {ToSet(c[i].txs) : i \in 1..(h - 1)}
  BY <1>2, <1>3 DEF Confirmed
<1>6. 1..h = 1..(h - 1) \cup {h}
  BY <1>1
<1>7. Confirmed(Prefix(c, h)) = Confirmed(Prefix(c, h - 1)) \cup ToSet(c[h].txs)
  BY <1>4, <1>5, <1>6
<1> QED BY <1>1, <1>2, <1>3, <1>7

\* Each block of a valid chain carries the nonces on from the one below.
LEMMA ValidFollows ==
  ASSUME NEW c \in Seq(Block), Valid(c), NEW h \in 1..Len(c)
  PROVE  /\ Len(c[h].txs) <= MaxBlockTxs
         /\ Follows(StateNonces(Prefix(c, h - 1)), c[h].txs, StateNonces(Prefix(c, h)))
BY BelowAndAt, BodyFollows DEF Valid

\* The empty chain is valid,
LEMMA ValidEmpty == Valid(<< >>)
<1>1. Len(<< >>) = 0
  BY EmptySeq
<1> QED BY <1>1 DEF Valid

\* a valid chain stays so under one more block,
LEMMA ValidAppend ==
  ASSUME NEW c \in Seq(Block), NEW own \in Seq(Block), Valid(own), CanAppend(own, c)
  PROVE  Valid(c)
<1> DEFINE l == Len(own)
<1>1. l \in Nat /\ Len(c) = l + 1 /\ Prefix(c, l) = own /\ ValidBody(own, c[l + 1])
  BY LenProperties DEF CanAppend, Extends, Last
<1>2. \A h \in 1..l : own[h] = c[h]
  <2>1. \A i \in 1..(l + 1) : c[i] \in Block
    BY <1>1, ElementOfSeq
  <2>2. \A i \in 1..(l - 1 + 1) : SubSeq(c, 1, l)[i] = c[1 + i - 1]
    BY <1>1, <2>1, SubSeqProperties
  <2> QED BY <1>1, <2>2 DEF Prefix
<1>3. ASSUME NEW h \in 1..(l + 1) PROVE ValidBody(Prefix(c, h - 1), c[h])
  <2>1. CASE h = l + 1
    BY <1>1, <2>1
  <2>2. CASE h \in 1..l
    <3>1. Prefix(c, h - 1) = Prefix(own, h - 1)
      BY <1>1, <1>2, <2>2 DEF Prefix
    <3>2. ValidBody(Prefix(own, h - 1), own[h])
      BY <2>2 DEF Valid
    <3> QED BY <1>2, <2>2, <3>1, <3>2
  <2> QED BY <1>1, <2>1, <2>2
<1> QED BY <1>1, <1>3 DEF Valid

\* and replace_with looks at every block.
LEMMA ValidReplace ==
  ASSUME NEW c \in Seq(Block), NEW own, CanReplace(own, c)
  PROVE  Valid(c)
BY LenProperties DEF CanReplace, Valid

\* The m batches of B, one after the other, hold the transactions of s with
\* the nonces below `to`, each once and in order.
Sequential(m, B, s, to) ==
  /\ \A h \in 1..m : \A i \in 1..Len(B[h]) :
        Sender[B[h][i]] = s => Nonce[B[h][i]] \in 0..(to - 1)
  /\ \A k \in 0..(to - 1) : \E h \in 1..m : \E i \in 1..Len(B[h]) :
        Sender[B[h][i]] = s /\ Nonce[B[h][i]] = k
  /\ \A g, h \in 1..m : \A i \in 1..Len(B[g]), j \in 1..Len(B[h]) :
        /\ Sender[B[g][i]] = s /\ Sender[B[h][j]] = s
        /\ g < h \/ (g = h /\ i < j)
        => Nonce[B[g][i]] < Nonce[B[h][j]]

\* Each batch starts where the one before ends, the first from nothing.
Joined(m, B, s, x) ==
  /\ x \in [0..m -> Nat] /\ x[0] = 0
  /\ \A h \in 1..m : B[h] \in Seq(Txs) /\ Runs(B[h], s, x[h - 1], x[h])

\* Runs that are joined are one run: a nonce is in the first batch that ends
\* above it.
LEMMA RunsJoin ==
  ASSUME NEW m \in Nat, NEW B, NEW s, NEW x, Joined(m, B, s, x)
  PROVE  Sequential(m, B, s, x[m])
<1>0. /\ x \in [0..m -> Nat] /\ x[0] = 0
      /\ \A h \in 1..m : B[h] \in Seq(Txs) /\ Runs(B[h], s, x[h - 1], x[h])
  BY DEF Joined
<1>1. \A i \in 0..m : x[i] \in Nat
  BY <1>0
<1>2. \A h \in 1..m : \A i \in 1..Len(B[h]) : Nonce[B[h][i]] \in Nat
  BY <1>0, ElementOfSeq, ChainAssumption
<1>3. ASSUME NEW h \in 1..m, NEW i \in 1..Len(B[h]), Sender[B[h][i]] = s
      PROVE  x[h - 1] <= Nonce[B[h][i]] /\ Nonce[B[h][i]] < x[h]
  BY <1>0, <1>3 DEF Runs
<1>4. \A i \in 0..m : \A j \in 0..i : x[j] <= x[i]
  <2> DEFINE S == {i \in 0..m : \A j \in 0..i : x[j] <= x[i]}
  <2>1. 0 \in S
    BY <1>1
  <2>2. ASSUME NEW i \in 1..m, i - 1 \in S PROVE i \in S
    <3>1. x[i - 1] <= x[i]
      BY <1>0 DEF Runs
    <3>2. ASSUME NEW j \in 0..i PROVE x[j] <= x[i]
      <4>1. x[j] \in Nat /\ x[i] \in Nat /\ x[i - 1] \in Nat
        BY <1>1
      <4>2. CASE j = i
        BY <4>1, <4>2
      <4>3. CASE j \in 0..(i - 1)
        BY <2>2, <3>1, <4>1, <4>3
      <4> QED BY <4>2, <4>3
    <3> QED BY <3>2
  <2> HIDE DEF S
  <2>3. \A i \in 0..m : i \in S
    BY <2>1, <2>2, CountUp
  <2> QED BY <2>3 DEF S
<1>5. ASSUME NEW h \in 1..m, NEW i \in 1..Len(B[h]), Sender[B[h][i]] = s
      PROVE  Nonce[B[h][i]] \in 0..(x[m] - 1)
  <2>1. x[h] <= x[m] /\ x[h] \in Nat /\ x[m] \in Nat
    BY <1>1, <1>4
  <2> QED BY <1>2, <1>3, <1>5, <2>1
<1>6. ASSUME NEW k \in 0..(x[m] - 1)
      PROVE  \E h \in 1..m : \E i \in 1..Len(B[h]) : Sender[B[h][i]] = s /\ Nonce[B[h][i]] = k
  <2> DEFINE T == {h \in 0..m : k < x[h]}
  <2>1. m \in T /\ T \subseteq Nat /\ k \in Nat
    BY <1>1
  <2>2. PICK h \in T : \A g \in T : h <= g
    <3> HIDE DEF T
    <3> QED BY <2>1, Least
  <2>3. h \in 1..m /\ k < x[h]
    BY <1>0, <2>1
  <2>4. ~ (k < x[h - 1])
    BY <2>2, <2>3
  <2>5. x[h - 1] <= k
    BY <1>1, <2>1, <2>3, <2>4
  <2> QED BY <1>0, <2>1, <2>3, <2>5 DEF Runs
<1>7. ASSUME NEW g \in 1..m, NEW h \in 1..m,
             NEW i \in 1..Len(B[g]), NEW j \in 1..Len(B[h]),
             Sender[B[g][i]] = s, Sender[B[h][j]] = s, g < h \/ (g = h /\ i < j)
      PROVE  Nonce[B[g][i]] < Nonce[B[h][j]]
  <2>1. CASE g = h /\ i < j
    BY <1>0, <1>7, <2>1 DEF Runs
  <2>2. CASE g < h
    <3>1. Nonce[B[g][i]] < x[g] /\ x[h - 1] <= Nonce[B[h][j]]
      BY <1>3, <1>7
    <3>2. x[g] <= x[h - 1] /\ x[g] \in Nat /\ x[h - 1] \in Nat
      BY <1>1, <1>4, <2>2
    <3>3. Nonce[B[g][i]] \in Nat /\ Nonce[B[h][j]] \in Nat
      BY <1>2
    <3> DEFINE a == Nonce[B[g][i]]
               b == Nonce[B[h][j]]
    <3>4. a \in Nat /\ b \in Nat /\ a < x[g] /\ x[h - 1] <= b
      BY <3>1, <3>3
    <3> HIDE DEF a, b
    <3>5. a < b
      BY <3>2, <3>4
    <3> QED BY <3>5 DEF a, b
  <2> QED BY <1>7, <2>1, <2>2
<1> QED BY <1>5, <1>6, <1>7 DEF Sequential

\* What a node's history is made of.
HistoryFits(n) ==
  /\ chain[n] \in Seq(Block) /\ Valid(chain[n])
  /\ mempool[n] \in Mempool
  /\ Follows(StateNonces(chain[n]), mempool[n].txs, mempool[n].next)

\* Nothing is confirmed below the first block.
LEMMA NoncesBegin ==
  ASSUME NEW s \in Senders, NEW c
  PROVE  StateNonces(Prefix(c, 0))[s] = 0
<1>1. Prefix(c, 0) = << >>
  BY DEF Prefix
<1>2. Confirmed(Prefix(c, 0)) = {}
  BY <1>1 DEF Confirmed
<1>3. {t \in Confirmed(Prefix(c, 0)) : Sender[t] = s} = {}
  BY <1>2
<1> QED BY <1>3, FS_EmptySet DEF StateNonces

\* A history made of these is sequential: its batches are the blocks and then
\* the mempool.
LEMMA HistoryOrdered ==
  ASSUME NEW n \in Nodes, NEW s \in Senders, HistoryFits(n)
  PROVE  /\ {Nonce[TxAt(n, p)] : p \in Places(n, s)} = 0..(mempool[n].next[s] - 1)
         /\ \A p, q \in Places(n, s) :
              Precedes(p, q) => Nonce[TxAt(n, p)] < Nonce[TxAt(n, q)]
<1> DEFINE c == chain[n]
           l == Len(c)
           m == l + 1
           B == Batches(n)
           x == [h \in 0..m |-> IF h = m THEN mempool[n].next[s]
                                ELSE StateNonces(Prefix(c, h))[s]]
<1>1. /\ c \in Seq(Block) /\ Valid(c) /\ l \in Nat /\ DOMAIN c = 1..l
      /\ mempool[n].txs \in Seq(Txs) /\ mempool[n].next[s] \in Nat
      /\ \A h \in 1..l : c[h].txs \in Seq(Txs)
  <2>1. c \in Seq(Block) /\ Valid(c) /\ mempool[n] \in Mempool
    BY DEF HistoryFits
  <2>2. mempool[n].txs \in Seq(Txs) /\ mempool[n].next[s] \in Nat
    BY <2>1 DEF Mempool
  <2> HIDE DEF c
  <2>3. l \in Nat /\ DOMAIN c = 1..l /\ \A h \in 1..l : c[h] \in Block
    BY <2>1, ElementOfSeq, LenProperties
  <2> QED BY <2>1, <2>2, <2>3 DEF Block
<1>2. /\ DOMAIN B = 1..m /\ B[m] = mempool[n].txs
      /\ \A h \in 1..l : B[h] = c[h].txs
  <2> DEFINE d == [h \in DOMAIN c |-> c[h].txs]
  <2>1. d = [h \in 1..l |-> c[h].txs]
    BY <1>1
  <2>2. d \in Seq(Seq(Txs)) /\ Len(d) = l /\ \A h \in 1..l : d[h] = c[h].txs
    BY <1>1, <2>1, IsASeq
  <2> HIDE DEF d
  <2>3. /\ Append(d, mempool[n].txs) \in Seq(Seq(Txs))
        /\ Len(Append(d, mempool[n].txs)) = m
        /\ Append(d, mempool[n].txs)[m] = mempool[n].txs
        /\ \A h \in 1..l : Append(d, mempool[n].txs)[h] = d[h]
    BY <1>1, <2>2, AppendProperties
  <2>4. B = Append(d, mempool[n].txs)
    BY DEF Batches, d
  <2> QED BY <2>2, <2>3, <2>4, LenProperties
<1>3. \A h \in 0..l : StateNonces(Prefix(c, h)) \in [Senders -> Nat]
  <2> SUFFICES ASSUME NEW h \in 0..l
               PROVE  StateNonces(Prefix(c, h)) \in [Senders -> Nat]
    OBVIOUS
  <2>1. Prefix(c, h) \in Seq(Block)
    <3>1. CASE h = 0
      BY <3>1, EmptySeq DEF Prefix
    <3>2. CASE h # 0
      BY <1>1, <3>2, BelowAndAt
    <3> QED BY <3>1, <3>2
  <2> QED BY <2>1, ConfirmedType
<1>4. /\ x \in [0..m -> Nat] /\ x[m] = mempool[n].next[s]
      /\ \A h \in 0..l : x[h] = StateNonces(Prefix(c, h))[s]
  <2> DEFINE E(h) == IF h = m THEN mempool[n].next[s] ELSE StateNonces(Prefix(c, h))[s]
  <2>1. x = [h \in 0..m |-> E(h)]
    OBVIOUS
  <2>2. m \in 0..m /\ \A h \in 0..l : h \in 0..m /\ h # m
    BY <1>1
  <2>3. \A h \in 0..m : h = m \/ h \in 0..l
    BY <1>1
  <2>4. E(m) \in Nat /\ \A h \in 0..l : StateNonces(Prefix(c, h))[s] \in Nat
    BY <1>1, <1>3
  <2>5. \A h \in 0..l : E(h) = StateNonces(Prefix(c, h))[s]
    BY <2>2
  <2>6. E(m) = mempool[n].next[s]
    OBVIOUS
  <2> HIDE DEF x, E, m, l, c
  <2>7. \A h \in 0..m : E(h) \in Nat
    BY <2>3, <2>4, <2>5
  <2> QED BY <2>1, <2>2, <2>5, <2>6, <2>7
<1>5. x[0] = 0
  BY <1>1, <1>4, NoncesBegin
<1> HIDE DEF x, B
<1>6. ASSUME NEW h \in 1..m PROVE B[h] \in Seq(Txs) /\ Runs(B[h], s, x[h - 1], x[h])
  <2>1. CASE h = m
    <3>1. Prefix(c, l) = c
      BY <1>1, SubSeqFull DEF Prefix
    <3>2. x[h - 1] = StateNonces(c)[s] /\ x[h] = mempool[n].next[s]
      BY <1>1, <1>4, <2>1, <3>1
    <3> QED BY <1>1, <1>2, <2>1, <3>2 DEF HistoryFits, Follows
  <2>2. CASE h \in 1..l
    <3>1. Follows(StateNonces(Prefix(c, h - 1)), c[h].txs, StateNonces(Prefix(c, h)))
      BY <1>1, <2>2, ValidFollows
    <3>2. x[h - 1] = StateNonces(Prefix(c, h - 1))[s] /\ x[h] = StateNonces(Prefix(c, h))[s]
      BY <1>1, <1>4, <2>2
    <3> QED BY <1>1, <1>2, <2>2, <3>1, <3>2 DEF Follows
  <2> QED BY <1>1, <2>1, <2>2
<1> HIDE DEF m, l, c
<1>7. m \in Nat
  BY <1>1 DEF m
<1>8. Sequential(m, B, s, x[m])
  BY <1>4, <1>5, <1>6, <1>7, RunsJoin DEF Joined
<1>9. \A h \in 1..m : DOMAIN B[h] = 1..Len(B[h])
  BY <1>6, LenProperties
<1>10. \A p : p \in Places(n, s) <=>
          /\ p = <<p[1], p[2]>> /\ p[1] \in 1..m /\ p[2] \in 1..Len(B[p[1]])
          /\ Sender[B[p[1]][p[2]]] = s
  BY <1>2, <1>9 DEF Places, TxAt, B
<1>11. \A p : TxAt(n, p) = B[p[1]][p[2]]
  BY DEF TxAt, B
<1>12. {Nonce[TxAt(n, p)] : p \in Places(n, s)} = 0..(x[m] - 1)
  <2>1. ASSUME NEW p \in Places(n, s) PROVE Nonce[TxAt(n, p)] \in 0..(x[m] - 1)
    BY <1>8, <1>10, <1>11 DEF Sequential
  <2>2. ASSUME NEW k \in 0..(x[m] - 1) PROVE \E p \in Places(n, s) : Nonce[TxAt(n, p)] = k
    <3>1. PICK h \in 1..m : \E i \in 1..Len(B[h]) : Sender[B[h][i]] = s /\ Nonce[B[h][i]] = k
      BY <1>8 DEF Sequential
    <3>2. PICK i \in 1..Len(B[h]) : Sender[B[h][i]] = s /\ Nonce[B[h][i]] = k
      BY <3>1
    <3>3. <<h, i>> \in Places(n, s)
      BY <1>10, <3>2
    <3>4. Nonce[TxAt(n, <<h, i>>)] = k
      BY <1>11, <3>2
    <3> QED BY <3>3, <3>4
  <2> QED BY <2>1, <2>2
<1>13. ASSUME NEW p \in Places(n, s), NEW q \in Places(n, s), Precedes(p, q)
       PROVE  Nonce[TxAt(n, p)] < Nonce[TxAt(n, q)]
  <2>1. /\ p[1] \in 1..m /\ p[2] \in 1..Len(B[p[1]]) /\ Sender[B[p[1]][p[2]]] = s
        /\ q[1] \in 1..m /\ q[2] \in 1..Len(B[q[1]]) /\ Sender[B[q[1]][q[2]]] = s
    BY <1>10
  <2>2. p[1] < q[1] \/ (p[1] = q[1] /\ p[2] < q[2])
    BY <1>13 DEF Precedes
  <2>3. Nonce[B[p[1]][p[2]]] < Nonce[B[q[1]][q[2]]]
    BY <1>8, <2>1, <2>2 DEF Sequential
  <2> QED BY <1>11, <2>3
<1> QED BY <1>4, <1>12, <1>13

----------------------------------------------------------------------------
(* The order of transactions is inductive.                                  *)

\* The chain of a node and the one on its disk were taken block by block, and
\* its mempool follows the nonces of its state.
NodeOrder(n) ==
  /\ HistoryFits(n)
  /\ Len(mempool[n].txs) <= MaxMempoolTxs
  /\ template[n] \in Seq(Block)
  /\ posts[n] \subseteq Post
  /\ disk[n] \in Seq(Block) /\ Valid(disk[n])
  /\ sync[n] \in Sync

\* Every node's, and every announced chain is one of blocks.
OrderInv ==
  /\ mempool = [n \in Nodes |-> mempool[n]]
  /\ \A n \in Nodes : NodeOrder(n)
  /\ \A a \in announced : a.from \in Nodes /\ a.chain \in Seq(Block)
  /\ faults \in Nat

\* A pool that a chain can have.
PoolFits(p, c) ==
  /\ p \in Mempool
  /\ Follows(StateNonces(c), p.txs, p.next)
  /\ Len(p.txs) <= MaxMempoolTxs

\* The empty mempool of a chain fits it,
LEMMA EmptyPoolFits ==
  ASSUME NEW c \in Seq(Block)
  PROVE  PoolFits(EmptyPool(c), c)
<1>1. /\ EmptyPool(c) \in Mempool
      /\ EmptyPool(c).txs = << >> /\ EmptyPool(c).next = StateNonces(c)
  BY EmptyPoolType
<1>2. Len(<< >>) = 0 /\ MaxMempoolTxs \in Nat
  BY EmptySeq, ChainAssumption
<1>3. Follows(StateNonces(c), << >>, StateNonces(c))
  BY ConfirmedType, RunsEmpty DEF Follows
<1> QED BY <1>1, <1>2, <1>3 DEF PoolFits

\* and so does one rebuilt for it.
LEMMA RebuiltFits ==
  ASSUME NEW p \in Mempool, NEW c \in Seq(Block)
  PROVE  PoolFits(Rebuilt(p, c), c)
BY RebuiltFollows DEF PoolFits

\* The order holds of the first state,
LEMMA OrderBegins == Init => OrderInv
<1> SUFFICES ASSUME Init PROVE OrderInv
  OBVIOUS
<1>1. << >> \in Seq(Block) /\ Valid(<< >>)
  BY EmptySeq, ValidEmpty
<1>2. PoolFits(EmptyPool(<< >>), << >>)
  BY <1>1, EmptyPoolFits
<1>3. ASSUME NEW n \in Nodes PROVE NodeOrder(n)
  <2>1. /\ chain[n] = << >> /\ mempool[n] = EmptyPool(<< >>) /\ template[n] = << >>
        /\ disk[n] = << >> /\ posts[n] = {} /\ sync[n] = NoSync(n, "idle")
    BY DEF Init
  <2>2. sync[n] \in Sync
    BY <1>1, <2>1 DEF NoSync, Sync
  <2> QED BY <1>1, <1>2, <2>1, <2>2 DEF NodeOrder, HistoryFits, PoolFits
<1>4. mempool = [n \in Nodes |-> mempool[n]]
  BY DEF Init
<1>5. announced = {} /\ faults = 0
  BY DEF Init
<1> QED BY <1>3, <1>4, <1>5 DEF OrderInv

\* What the invariants say of one node.
LEMMA OrderOf ==
  ASSUME IInv, OrderInv, NEW n \in Nodes
  PROVE  /\ chain[n] \in Seq(Block) /\ Valid(chain[n])
         /\ mempool[n] \in Mempool /\ PoolFits(mempool[n], chain[n])
         /\ template[n] \in Seq(Block) /\ posts[n] \subseteq Post
         /\ disk[n] \in Seq(Block) /\ Valid(disk[n])
         /\ sync[n] \in Sync /\ IsRecord(sync[n])
BY DEF OrderInv, NodeOrder, HistoryFits, PoolFits, IInv, NodeFits, SyncFits

\* What one step of node n must leave behind.
LEMMA OrderKept ==
  ASSUME IInv, OrderInv, NEW n \in Nodes,
         NEW c \in Seq(Block), NEW p, NEW t \in Seq(Block), NEW q, NEW d \in Seq(Block),
         NEW s \in Sync,
         chain' = [chain EXCEPT ![n] = c], Valid(c),
         mempool' = [mempool EXCEPT ![n] = p], PoolFits(p, c),
         template' = [template EXCEPT ![n] = t],
         posts' = [posts EXCEPT ![n] = q], q \subseteq Post,
         disk' = [disk EXCEPT ![n] = d], Valid(d),
         sync' = [sync EXCEPT ![n] = s],
         \A a \in announced' : a \in announced \/ (a.from \in Nodes /\ a.chain \in Seq(Block)),
         faults' \in Nat
  PROVE  OrderInv'
<1>1. Shape /\ mempool = [m \in Nodes |-> mempool[m]]
  BY DEF IInv, OrderInv
<1>2. mempool' = [m \in Nodes |-> mempool'[m]]
  BY <1>1
<1>3. ASSUME NEW m \in Nodes PROVE NodeOrder(m)'
  <2>1. CASE m = n
    <3>1. /\ chain'[m] = c /\ mempool'[m] = p /\ template'[m] = t /\ posts'[m] = q
          /\ disk'[m] = d /\ sync'[m] = s
      BY <1>1, <2>1 DEF Shape
    <3> QED BY <3>1 DEF NodeOrder, HistoryFits, PoolFits
  <2>2. CASE m # n
    <3>1. /\ chain'[m] = chain[m] /\ mempool'[m] = mempool[m]
          /\ template'[m] = template[m] /\ posts'[m] = posts[m]
          /\ disk'[m] = disk[m] /\ sync'[m] = sync[m]
      BY <1>1, <2>2 DEF Shape
    <3>2. NodeOrder(m)
      BY DEF OrderInv
    <3> QED BY <3>1, <3>2 DEF NodeOrder, HistoryFits
  <2> QED BY <2>1, <2>2
<1>4. \A a \in announced' : a.from \in Nodes /\ a.chain \in Seq(Block)
  BY DEF OrderInv
<1> QED BY <1>2, <1>3, <1>4 DEF OrderInv

\* What a node keeps it can be said to be given again.
LEMMA SamePool ==
  ASSUME OrderInv, NEW n \in Nodes
  PROVE  mempool = [mempool EXCEPT ![n] = mempool[n]]
BY DEF OrderInv

\* n moves on to a valid chain.
LEMMA OrderMoves ==
  ASSUME IInv, OrderInv, NEW n \in Nodes,
         NEW c \in Seq(Block), Valid(c), SetChain(n, c),
         NEW t \in Seq(Block), NEW q, NEW s \in Sync,
         template' = [template EXCEPT ![n] = t],
         posts' = [posts EXCEPT ![n] = q], q \subseteq Post,
         sync' = [sync EXCEPT ![n] = s],
         UNCHANGED <<disk, announced, faults>>
  PROVE  OrderInv'
<1>1. /\ chain' = [chain EXCEPT ![n] = c]
      /\ mempool' = [mempool EXCEPT ![n] = Rebuilt(mempool[n], c)]
  BY DEF SetChain
<1>2. PoolFits(Rebuilt(mempool[n], c), c)
  BY OrderOf, RebuiltFits
<1>3. disk' = [disk EXCEPT ![n] = disk[n]] /\ disk[n] \in Seq(Block) /\ Valid(disk[n])
  BY Same, OrderOf
<1>4. faults' \in Nat /\ \A a \in announced' : a \in announced
  BY DEF OrderInv
<1> QED BY <1>1, <1>2, <1>3, <1>4, OrderKept

\* Nothing but the template, the posts, the disk and the sync of n changes.
LEMMA OrderStays ==
  ASSUME IInv, OrderInv, NEW n \in Nodes,
         NEW t \in Seq(Block), NEW q, NEW s \in Sync, NEW d \in Seq(Block),
         template' = [template EXCEPT ![n] = t],
         posts' = [posts EXCEPT ![n] = q], q \subseteq Post,
         disk' = [disk EXCEPT ![n] = d], Valid(d),
         sync' = [sync EXCEPT ![n] = s],
         UNCHANGED <<chain, mempool>>,
         \A a \in announced' : a \in announced \/ (a.from \in Nodes /\ a.chain \in Seq(Block)),
         faults' \in Nat
  PROVE  OrderInv'
<1>1. /\ chain' = [chain EXCEPT ![n] = chain[n]]
      /\ mempool' = [mempool EXCEPT ![n] = mempool[n]]
  BY Same, SamePool
<1>2. chain[n] \in Seq(Block) /\ Valid(chain[n]) /\ PoolFits(mempool[n], chain[n])
  BY OrderOf
<1> QED BY <1>1, <1>2, OrderKept

\* Parts of a chain, and chains joined.
LEMMA PartBlocks ==
  ASSUME NEW c \in Seq(Block), NEW i \in Nat \ {0}, NEW j \in 0..Len(c)
  PROVE  SubSeq(c, i, j) \in Seq(Block)
<1>1. \A k \in i..j : c[k] \in Block
  BY ElementOfSeq, LenProperties
<1>2. i \in Int /\ j \in Int
  BY LenProperties
<1> QED BY <1>1, <1>2, SubSeqProperties

\* A pending transaction more.
LEMMA SubmitOrder ==
  ASSUME IInv, OrderInv, NEW n \in Nodes, NEW t \in Txs, SubmitTx(n, t)
  PROVE  OrderInv'
<1> DEFINE p == Add(mempool[n], t)
<1>1. /\ CanAdd(mempool[n], chain[n], t)
      /\ mempool' = [mempool EXCEPT ![n] = p]
      /\ UNCHANGED <<chain, template, posts, disk, sync, announced, faults>>
  BY DEF SubmitTx
<1>2. /\ chain[n] \in Seq(Block) /\ Valid(chain[n])
      /\ mempool[n] \in Mempool /\ PoolFits(mempool[n], chain[n])
      /\ template[n] \in Seq(Block) /\ posts[n] \subseteq Post
      /\ disk[n] \in Seq(Block) /\ Valid(disk[n]) /\ sync[n] \in Sync
  BY OrderOf
<1>3. PoolFits(p, chain[n])
  <2>1. p \in Mempool /\ p.txs = Append(mempool[n].txs, t)
    BY <1>2, AddType
  <2>2. Follows(StateNonces(chain[n]), p.txs, p.next)
    BY <1>1, <1>2, ConfirmedType, FollowsAdd DEF PoolFits, CanAdd
  <2>3. Len(mempool[n].txs) < MaxMempoolTxs
    BY <1>1 DEF CanAdd, HasRoom
  <2>4. mempool[n].txs \in Seq(Txs) /\ MaxMempoolTxs \in Nat
    BY <1>2, ChainAssumption DEF Mempool
  <2>5. Len(p.txs) = Len(mempool[n].txs) + 1 /\ Len(mempool[n].txs) \in Nat
    BY <2>1, <2>4, AppendProperties, LenProperties
  <2>6. Len(p.txs) <= MaxMempoolTxs
    BY <2>3, <2>4, <2>5
  <2> HIDE DEF p
  <2> QED BY <2>1, <2>2, <2>6 DEF PoolFits
<1>4. /\ chain' = [chain EXCEPT ![n] = chain[n]]
      /\ template' = [template EXCEPT ![n] = template[n]]
      /\ posts' = [posts EXCEPT ![n] = posts[n]]
      /\ disk' = [disk EXCEPT ![n] = disk[n]]
      /\ sync' = [sync EXCEPT ![n] = sync[n]]
  BY <1>1, Same
<1>5. faults' \in Nat /\ \A a \in announced' : a \in announced
  BY <1>1 DEF OrderInv
<1>6. mempool' = [mempool EXCEPT ![n] = p]
  BY <1>1
<1> HIDE DEF p
<1> QED BY <1>2, <1>3, <1>4, <1>5, <1>6, OrderKept

\* Mining.
LEMMA MiningOrder ==
  ASSUME IInv, OrderInv, NEW n \in Nodes, BlockTemplate(n) \/ MineBlock(n) \/ DropTemplate(n)
  PROVE  OrderInv'
<1>0. /\ chain[n] \in Seq(Block) /\ Valid(chain[n]) /\ mempool[n] \in Mempool
      /\ template[n] \in Seq(Block) /\ posts[n] \subseteq Post
      /\ disk[n] \in Seq(Block) /\ Valid(disk[n]) /\ sync[n] \in Sync
      /\ posts = [posts EXCEPT ![n] = posts[n]]
      /\ disk = [disk EXCEPT ![n] = disk[n]]
      /\ sync = [sync EXCEPT ![n] = sync[n]]
      /\ << >> \in Seq(Block) /\ faults \in Nat
  BY OrderOf, Same, EmptySeq DEF OrderInv
<1>1. CASE BlockTemplate(n)
  <2>1. PICK next \in Retargets(chain[n]) :
          template' = [template EXCEPT ![n] =
             Append(chain[n], [miner |-> n, work |-> WorkAfter(chain[n]), next |-> next,
                               txs |-> Chosen(mempool[n], chain[n])])]
    BY <1>1 DEF BlockTemplate
  <2> DEFINE b == [miner |-> n, work |-> WorkAfter(chain[n]), next |-> next,
                   txs |-> Chosen(mempool[n], chain[n])]
             t == Append(chain[n], b)
  <2>2. WorkAfter(chain[n]) \in Works /\ next \in Works
    BY WorksOf, TemplateWorks
  <2>3. Chosen(mempool[n], chain[n]) \in Seq(Txs)
    BY <1>0, ChosenFollows
  <2>4. b \in Block
    BY <2>2, <2>3 DEF Block
  <2>5. template' = [template EXCEPT ![n] = t]
    BY <2>1
  <2> HIDE DEF b
  <2>6. t \in Seq(Block)
    BY <1>0, <2>4, AppendProperties
  <2>7. UNCHANGED <<chain, mempool, posts, disk, sync, announced, faults>>
    BY <1>1 DEF BlockTemplate
  <2> HIDE DEF t
  <2> QED BY <1>0, <2>5, <2>6, <2>7, OrderStays
<1>2. CASE MineBlock(n)
  <2> DEFINE post == [chain |-> template[n], by |-> "miner", saved |-> FALSE]
             q == posts[n] \cup {post}
  <2>1. /\ CanAppend(chain[n], template[n]) /\ SetChain(n, template[n])
        /\ posts' = [posts EXCEPT ![n] = q]
        /\ template' = [template EXCEPT ![n] = << >>]
        /\ UNCHANGED <<disk, sync, announced, faults>>
    BY <1>2 DEF MineBlock, AddPost
  <2>2. Valid(template[n])
    BY <1>0, <2>1, ValidAppend
  <2>3. q \subseteq Post
    <3>1. post \in Post
      BY <1>0 DEF Post
    <3> HIDE DEF post
    <3> QED BY <1>0, <3>1
  <2>4. sync' = [sync EXCEPT ![n] = sync[n]]
    BY <1>0, <2>1
  <2> HIDE DEF q
  <2> QED BY <1>0, <2>1, <2>2, <2>3, <2>4, OrderMoves
<1>3. CASE DropTemplate(n)
  <2>1. /\ template' = [template EXCEPT ![n] = << >>]
        /\ UNCHANGED <<chain, mempool, posts, disk, sync, announced, faults>>
    BY <1>3 DEF DropTemplate
  <2> QED BY <1>0, <2>1, OrderStays
<1> QED BY <1>1, <1>2, <1>3

\* Blocks from peers, and what becomes of blocks added.
LEMMA BlockOrder ==
  ASSUME IInv, OrderInv, NEW n \in Nodes,
         \/ \E a \in announced : AcceptBlock(n, a)
         \/ \E p \in posts[n] : Persist(n, p) \/ Announce(n, p)
  PROVE  OrderInv'
<1>0. /\ chain[n] \in Seq(Block) /\ Valid(chain[n]) /\ mempool[n] \in Mempool
      /\ template[n] \in Seq(Block) /\ posts[n] \subseteq Post
      /\ disk[n] \in Seq(Block) /\ Valid(disk[n]) /\ sync[n] \in Sync
      /\ template = [template EXCEPT ![n] = template[n]]
      /\ disk = [disk EXCEPT ![n] = disk[n]]
      /\ sync = [sync EXCEPT ![n] = sync[n]]
      /\ faults \in Nat
  BY OrderOf, Same DEF OrderInv
<1>1. ASSUME NEW a \in announced, AcceptBlock(n, a) PROVE OrderInv'
  <2> DEFINE post == [chain |-> a.chain, by |-> "peer", saved |-> FALSE]
             q == posts[n] \cup {post}
  <2>1. /\ CanAppend(chain[n], a.chain) /\ SetChain(n, a.chain)
        /\ posts' = [posts EXCEPT ![n] = q]
        /\ UNCHANGED <<template, disk, sync, announced, faults>>
    BY <1>1 DEF AcceptBlock, AddPost
  <2>2. a.chain \in Seq(Block)
    BY DEF OrderInv
  <2>3. Valid(a.chain)
    BY <1>0, <2>1, <2>2, ValidAppend
  <2>4. q \subseteq Post
    <3>1. post \in Post
      BY <2>2 DEF Post
    <3> HIDE DEF post
    <3> QED BY <1>0, <3>1
  <2>5. /\ template' = [template EXCEPT ![n] = template[n]]
        /\ sync' = [sync EXCEPT ![n] = sync[n]]
    BY <1>0, <2>1
  <2> HIDE DEF q
  <2> QED BY <1>0, <2>1, <2>2, <2>3, <2>4, <2>5, OrderMoves
<1>2. ASSUME NEW p \in posts[n], Persist(n, p) PROVE OrderInv'
  <2> DEFINE q == (posts[n] \ {p}) \cup {[p EXCEPT !.saved = TRUE]}
  <2>1. /\ disk' = [disk EXCEPT ![n] = chain[n]]
        /\ posts' = [posts EXCEPT ![n] = q]
        /\ UNCHANGED <<chain, mempool, template, sync, announced, faults>>
    BY <1>2 DEF Persist
  <2>2. p \in Post
    BY <1>0
  <2>3. [p EXCEPT !.saved = TRUE] \in Post
    BY <2>2 DEF Post
  <2>4. q \subseteq Post
    BY <1>0, <2>3
  <2> HIDE DEF q
  <2> QED BY <1>0, <2>1, <2>4, OrderStays
<1>3. ASSUME NEW p \in posts[n], Announce(n, p) PROVE OrderInv'
  <2> DEFINE q == posts[n] \ {p}
  <2>1. /\ announced' = announced \cup {[from |-> n, chain |-> p.chain]}
        /\ posts' = [posts EXCEPT ![n] = q]
        /\ UNCHANGED <<chain, mempool, template, disk, sync, faults>>
    BY <1>3 DEF Announce
  <2>2. p.chain \in Seq(Block) /\ q \subseteq Post
    BY <1>0 DEF Post
  <2>3. \A a \in announced' : a \in announced \/ (a.from \in Nodes /\ a.chain \in Seq(Block))
    BY <2>1, <2>2
  <2> HIDE DEF q
  <2> QED BY <1>0, <2>1, <2>2, <2>3, OrderStays
<1> QED BY <1>1, <1>2, <1>3

\* Asking, walking back, looking at headers and fetching blocks change nothing
\* but the sync.
LEMMA AskOrder ==
  ASSUME IInv, OrderInv, NEW n \in Nodes,
         \/ \E p \in Peers[n] : SyncStatus(n, p)
         \/ SyncWalk(n) \/ SyncHeaders(n) \/ SyncBodies(n) \/ SyncFail(n)
  PROVE  OrderInv'
<1>0. /\ sync[n] \in Sync /\ IsRecord(sync[n]) /\ SyncFits(n)
      /\ Len(chain[n]) \in Nat /\ << >> \in Seq(Block)
      /\ chain[n] \in Seq(Block) /\ posts[n] \subseteq Post /\ template[n] \in Seq(Block)
      /\ disk[n] \in Seq(Block) /\ Valid(disk[n])
      /\ template = [template EXCEPT ![n] = template[n]]
      /\ posts = [posts EXCEPT ![n] = posts[n]]
      /\ disk = [disk EXCEPT ![n] = disk[n]]
      /\ faults \in Nat
  BY OrderOf, WorksOf, Same, EmptySeq, LenProperties DEF OrderInv
<1>1. ASSUME NEW s \in Sync, GoTo(n, s), faults' \in Nat,
             UNCHANGED <<chain, mempool, template, posts, disk, announced>>
      PROVE  OrderInv'
  <2>1. sync' = [sync EXCEPT ![n] = s]
    BY <1>1 DEF GoTo
  <2>2. /\ template' = [template EXCEPT ![n] = template[n]]
        /\ posts' = [posts EXCEPT ![n] = posts[n]]
        /\ disk' = [disk EXCEPT ![n] = disk[n]]
    BY <1>0, <1>1
  <2> QED BY <1>0, <1>1, <2>1, <2>2, OrderStays
<1>2. \A stage \in {"idle", "refused", "save"} : NoSync(n, stage) \in Sync
  BY <1>0 DEF NoSync, Sync
<1>3. /\ sync[n].stage \in {"idle", "refused", "walk", "headers", "bodies", "extend",
                            "replace", "save"}
      /\ sync[n].peer \in Nodes /\ sync[n].top \in Nat /\ sync[n].h \in Nat
      /\ sync[n].step \in Nat /\ sync[n].got \in Seq(Block)
  BY <1>0 DEF Sync
<1>4. ASSUME NEW p \in Peers[n], SyncStatus(n, p) PROVE OrderInv'
  <2> DEFINE s == [stage |-> "walk", peer |-> p, top |-> Len(chain[p]),
                   h |-> Minimum(Len(chain[n]), Len(chain[p])), step |-> 1,
                   got |-> << >>]
  <2>1. p \in Nodes
    BY NodeAssumption
  <2>2. Len(chain[p]) \in Nat
    BY <2>1, OrderOf, LenProperties
  <2>3. Minimum(Len(chain[n]), Len(chain[p])) \in Nat
    BY <1>0, <2>2 DEF Minimum
  <2>4. s \in Sync
    BY <1>0, <2>1, <2>2, <2>3 DEF Sync
  <2>5. GoTo(n, s) /\ UNCHANGED <<chain, mempool, template, posts, disk, announced, faults>>
    BY <1>4 DEF SyncStatus
  <2> HIDE DEF s
  <2> QED BY <1>0, <1>1, <2>4, <2>5
<1>5. CASE SyncWalk(n)
  <2> DEFINE h == Maximum(0, sync[n].h - sync[n].step)
             k == 2 * sync[n].step
             back == [sync[n] EXCEPT !.h = h, !.step = k]
             on == [sync[n] EXCEPT !.stage = "headers"]
  <2>1. h \in Nat /\ k \in Nat
    BY <1>3 DEF Maximum
  <2>2. back \in Sync
    <3> HIDE DEF h, k
    <3>1. back = [stage |-> sync[n].stage, peer |-> sync[n].peer, top |-> sync[n].top,
                  h |-> h, step |-> k, got |-> sync[n].got]
      BY <1>0, WalkRecord
    <3> HIDE DEF back
    <3> QED BY <1>3, <2>1, <3>1 DEF Sync
  <2>3. on \in Sync
    BY <1>0 DEF Sync
  <2>4. UNCHANGED <<chain, mempool, template, posts, disk, announced, faults>>
    BY <1>5 DEF SyncWalk
  <2>5. GoTo(n, back) \/ GoTo(n, NoSync(n, "refused")) \/ GoTo(n, on)
    BY <1>5 DEF SyncWalk
  <2> HIDE DEF back, on
  <2> QED BY <1>0, <1>1, <1>2, <2>2, <2>3, <2>4, <2>5
<1>6. CASE SyncHeaders(n)
  <2> DEFINE on == [sync[n] EXCEPT !.stage = "bodies"]
  <2>1. on \in Sync
    BY <1>0 DEF Sync
  <2>2. UNCHANGED <<chain, mempool, template, posts, disk, announced, faults>>
    BY <1>6 DEF SyncHeaders
  <2>3. GoTo(n, on) \/ GoTo(n, NoSync(n, "idle"))
    BY <1>6 DEF SyncHeaders
  <2> HIDE DEF on
  <2> QED BY <1>0, <1>1, <1>2, <2>1, <2>2, <2>3
<1>7. CASE SyncBodies(n)
  <2> DEFINE a == IF sync[n].h = Len(chain[n]) THEN "extend" ELSE "replace"
             on == [sync[n] EXCEPT !.stage = a, !.got = Offer(n)]
  <2>1. sync[n].h \in 0..Len(chain[n])
    BY <1>0, <1>3, <1>7 DEF SyncBodies, SyncFits
  <2>2. Offer(n) \in Seq(Block)
    <3>1. Peer(n) \in Seq(Block) /\ Len(Peer(n)) \in Nat
      BY <1>3, OrderOf, LenProperties DEF Peer
    <3>2. Prefix(chain[n], sync[n].h) \in Seq(Block)
      BY <1>0, <2>1, PartBlocks DEF Prefix
    <3>3. Page(n) \in Seq(Block)
      <4>1. Minimum(sync[n].top, Len(Peer(n))) \in 0..Len(Peer(n))
        BY <1>3, <3>1 DEF Minimum
      <4>2. sync[n].h + 1 \in Nat \ {0}
        BY <1>3
      <4> QED BY <3>1, <4>1, <4>2, PartBlocks DEF Page
    <3> QED BY <3>2, <3>3, ConcatProperties DEF Offer
  <2>3. on \in Sync
    <3>1. a \in {"extend", "replace"}
      OBVIOUS
    <3> HIDE DEF a
    <3>2. on = [stage |-> a, peer |-> sync[n].peer, top |-> sync[n].top, h |-> sync[n].h,
                step |-> sync[n].step, got |-> Offer(n)]
      <4> DEFINE got == Offer(n)
      <4> HIDE DEF got
      <4>1. [sync[n] EXCEPT !.stage = a, !.got = got]
              = [stage |-> a, peer |-> sync[n].peer, top |-> sync[n].top,
                 h |-> sync[n].h, step |-> sync[n].step, got |-> got]
        <5>1. IsRecord(sync[n])
          BY <1>0
        <5> QED BY ONLY <5>1, BodiesRecord
      <4> QED BY <4>1 DEF got
    <3> HIDE DEF on
    <3> QED BY <1>3, <2>2, <3>1, <3>2 DEF Sync
  <2>4. UNCHANGED <<chain, mempool, template, posts, disk, announced, faults>>
    BY <1>7 DEF SyncBodies
  <2>5. GoTo(n, on) \/ GoTo(n, NoSync(n, "idle"))
    BY <1>7 DEF SyncBodies
  <2> HIDE DEF on
  <2> QED BY <1>0, <1>1, <1>2, <2>3, <2>4, <2>5
<1>8. CASE SyncFail(n)
  <2>1. /\ GoTo(n, NoSync(n, "idle")) /\ faults' = faults + 1
        /\ UNCHANGED <<chain, mempool, template, posts, disk, announced>>
    BY <1>8 DEF SyncFail
  <2>2. faults' \in Nat
    BY <1>0, <2>1
  <2> QED BY <1>1, <1>2, <2>1, <2>2
<1> QED BY <1>4, <1>5, <1>6, <1>7, <1>8

\* A sync brings blocks, one at a time or a chain at once, and is saved.
LEMMA SyncOrder ==
  ASSUME IInv, OrderInv, NEW n \in Nodes,
         SyncExtend(n) \/ SyncReplace(n) \/ SyncSave(n)
  PROVE  OrderInv'
<1>0. /\ sync[n] \in Sync /\ IsRecord(sync[n])
      /\ << >> \in Seq(Block)
      /\ chain[n] \in Seq(Block) /\ Valid(chain[n])
      /\ posts[n] \subseteq Post /\ template[n] \in Seq(Block)
      /\ disk[n] \in Seq(Block) /\ Valid(disk[n])
      /\ template = [template EXCEPT ![n] = template[n]]
      /\ posts = [posts EXCEPT ![n] = posts[n]]
      /\ disk = [disk EXCEPT ![n] = disk[n]]
      /\ faults \in Nat
  BY OrderOf, Same, EmptySeq DEF OrderInv
<1>1. /\ sync[n].h \in Nat /\ sync[n].got \in Seq(Block) /\ Len(sync[n].got) \in Nat
  BY <1>0, LenProperties DEF Sync
<1>2. \A stage \in {"idle", "refused", "save"} : NoSync(n, stage) \in Sync
  BY <1>0 DEF NoSync, Sync
<1>3. ASSUME NEW c \in Seq(Block), Valid(c), SetChain(n, c), NEW s \in Sync, GoTo(n, s),
             UNCHANGED <<template, posts, disk, announced, faults>>
      PROVE  OrderInv'
  <2>1. /\ sync' = [sync EXCEPT ![n] = s]
        /\ template' = [template EXCEPT ![n] = template[n]]
        /\ posts' = [posts EXCEPT ![n] = posts[n]]
    BY <1>0, <1>3 DEF GoTo
  <2> QED BY <1>0, <1>3, <2>1, OrderMoves
<1>4. ASSUME NEW s \in Sync, GoTo(n, s), NEW d \in Seq(Block), Valid(d),
             disk' = [disk EXCEPT ![n] = d],
             UNCHANGED <<chain, mempool, template, posts, announced, faults>>
      PROVE  OrderInv'
  <2>1. /\ sync' = [sync EXCEPT ![n] = s]
        /\ template' = [template EXCEPT ![n] = template[n]]
        /\ posts' = [posts EXCEPT ![n] = posts[n]]
    BY <1>0, <1>4 DEF GoTo
  <2> QED BY <1>0, <1>4, <2>1, OrderStays
<1>5. CASE SyncExtend(n)
  <2> DEFINE c == Prefix(sync[n].got, sync[n].h + 1)
             on == [sync[n] EXCEPT !.h = @ + 1]
  <2>1. UNCHANGED <<template, posts, disk, announced, faults>> /\ sync[n].h < Len(sync[n].got)
    BY <1>5 DEF SyncExtend
  <2>2. c \in Seq(Block)
    <3>1. sync[n].h + 1 \in 0..Len(sync[n].got) /\ 1 \in Nat \ {0}
      BY <1>1, <2>1
    <3> QED BY <1>1, <3>1, PartBlocks DEF Prefix
  <2>3. on \in Sync
    <3> DEFINE k == sync[n].h + 1
    <3>1. k \in Nat
      BY <1>1
    <3> HIDE DEF k
    <3>2. [sync[n] EXCEPT !.h = k] \in Sync
      BY <1>0, <3>1 DEF Sync
    <3> QED BY <3>2 DEF k
  <2>4. CASE CanAppend(chain[n], c)
    <3>1. SetChain(n, c) /\ GoTo(n, on)
      BY <1>5, <2>4 DEF SyncExtend
    <3> HIDE DEF c, on
    <3>2. Valid(c)
      BY <1>0, <2>2, <2>4, ValidAppend
    <3> QED BY <1>3, <2>1, <2>2, <2>3, <3>1, <3>2
  <2>5. CASE ~CanAppend(chain[n], c)
    <3>1. GoTo(n, NoSync(n, "idle")) /\ UNCHANGED <<chain, mempool>>
      BY <1>5, <2>5 DEF SyncExtend
    <3>2. disk' = [disk EXCEPT ![n] = disk[n]]
      BY <1>0, <2>1
    <3> QED BY <1>0, <1>2, <1>4, <2>1, <3>1, <3>2
  <2> QED BY <2>4, <2>5
<1>6. CASE SyncReplace(n)
  <2>1. UNCHANGED <<template, posts, disk, announced, faults>>
    BY <1>6 DEF SyncReplace
  <2>2. CASE CanReplace(chain[n], sync[n].got)
    <3>1. SetChain(n, sync[n].got) /\ GoTo(n, NoSync(n, "save"))
      BY <1>6, <2>2 DEF SyncReplace
    <3>2. Valid(sync[n].got)
      BY <1>1, <2>2, ValidReplace
    <3> QED BY <1>1, <1>2, <1>3, <2>1, <3>1, <3>2
  <2>3. CASE ~CanReplace(chain[n], sync[n].got)
    <3>1. /\ GoTo(n, NoSync(n, "refused")) \/ GoTo(n, NoSync(n, "idle"))
          /\ UNCHANGED <<chain, mempool>>
      BY <1>6, <2>3 DEF SyncReplace
    <3>2. disk' = [disk EXCEPT ![n] = disk[n]]
      BY <1>0, <2>1
    <3> QED BY <1>0, <1>2, <1>4, <2>1, <3>1, <3>2
  <2> QED BY <2>2, <2>3
<1>7. CASE SyncSave(n)
  <2>1. /\ disk' = [disk EXCEPT ![n] = chain[n]] /\ GoTo(n, NoSync(n, "idle"))
        /\ UNCHANGED <<chain, mempool, template, posts, announced, faults>>
    BY <1>7 DEF SyncSave
  <2> QED BY <1>0, <1>2, <1>4, <2>1
<1> QED BY <1>5, <1>6, <1>7

\* The process ends and starts again.
LEMMA RestartOrder ==
  ASSUME IInv, OrderInv, NEW n \in Nodes, Crash(n) \/ Stop(n)
  PROVE  OrderInv'
<1>0. /\ << >> \in Seq(Block) /\ NoSync(n, "idle") \in Sync /\ faults \in Nat
      /\ chain[n] \in Seq(Block) /\ Valid(chain[n])
      /\ disk[n] \in Seq(Block) /\ Valid(disk[n])
      /\ disk = [disk EXCEPT ![n] = disk[n]]
  BY OrderOf, Same, EmptySeq DEF OrderInv, NoSync, Sync
<1>1. ASSUME NEW c \in Seq(Block), Valid(c), Reload(n, c), disk' = [disk EXCEPT ![n] = c]
      PROVE  OrderInv'
  <2>1. /\ chain' = [chain EXCEPT ![n] = c]
        /\ mempool' = [mempool EXCEPT ![n] = EmptyPool(c)]
        /\ template' = [template EXCEPT ![n] = << >>]
        /\ posts' = [posts EXCEPT ![n] = {}]
        /\ sync' = [sync EXCEPT ![n] = NoSync(n, "idle")]
        /\ announced' = announced /\ faults' = faults + 1
    BY <1>1 DEF Reload
  <2>2. PoolFits(EmptyPool(c), c)
    BY EmptyPoolFits
  <2>3. faults' \in Nat /\ {} \subseteq Post /\ \A a \in announced' : a \in announced
    BY <1>0, <2>1
  <2> DEFINE none == << >>
             s == NoSync(n, "idle")
             p == EmptyPool(c)
             q == {}
  <2>4. /\ none \in Seq(Block) /\ s \in Sync /\ q \subseteq Post /\ PoolFits(p, c)
        /\ chain' = [chain EXCEPT ![n] = c]
        /\ mempool' = [mempool EXCEPT ![n] = p]
        /\ template' = [template EXCEPT ![n] = none]
        /\ posts' = [posts EXCEPT ![n] = q]
        /\ sync' = [sync EXCEPT ![n] = s]
    BY <1>0, <2>1, <2>2
  <2> HIDE DEF none, s, p, q
  <2> QED BY <1>1, <2>3, <2>4, OrderKept
<1>2. CASE Crash(n)
  <2>1. Reload(n, disk[n]) /\ disk' = [disk EXCEPT ![n] = disk[n]]
    BY <1>0, <1>2 DEF Crash
  <2> QED BY <1>0, <1>1, <2>1
<1>3. CASE Stop(n)
  BY <1>0, <1>1, <1>3 DEF Stop
<1> QED BY <1>2, <1>3

\* after every step,
LEMMA NextOrder == IInv /\ OrderInv /\ [Next]_vars => OrderInv'
<1> SUFFICES ASSUME IInv, OrderInv, [Next]_vars PROVE OrderInv'
  OBVIOUS
<1>1. ASSUME NEW n \in Nodes, NodeStep(n) PROVE OrderInv'
  <2>1. CASE \E t \in Txs : SubmitTx(n, t)
    BY <2>1, SubmitOrder
  <2>2. CASE BlockTemplate(n) \/ MineBlock(n) \/ DropTemplate(n)
    BY <2>2, MiningOrder
  <2>3. CASE \/ \E a \in announced : AcceptBlock(n, a)
             \/ \E p \in posts[n] : Persist(n, p) \/ Announce(n, p)
    BY <2>3, BlockOrder
  <2>4. CASE \/ \E p \in Peers[n] : SyncStatus(n, p)
             \/ SyncWalk(n) \/ SyncHeaders(n) \/ SyncBodies(n) \/ SyncFail(n)
    BY <2>4, AskOrder
  <2>5. CASE SyncExtend(n) \/ SyncReplace(n) \/ SyncSave(n)
    BY <2>5, SyncOrder
  <2>6. CASE Crash(n) \/ Stop(n)
    BY <2>6, RestartOrder
  <2> QED BY <1>1, <2>1, <2>2, <2>3, <2>4, <2>5, <2>6 DEF NodeStep, SyncStep
<1>2. CASE UNCHANGED vars
  BY <1>2 DEF vars, OrderInv, NodeOrder, HistoryFits
<1> QED BY <1>1, <1>2 DEF Next

\* and always,
LEMMA OrderHolds == Spec => []OrderInv
BY InitInv, NextInv, OrderBegins, NextOrder, PTL DEF Spec

\* and gives a node's variables their types.
LEMMA OrderTypes == ASSUME IInv, OrderInv PROVE TypeOK
<1>1. Shape /\ mempool = [n \in Nodes |-> mempool[n]]
  BY DEF IInv, OrderInv
<1>2. \A n \in Nodes : NodeOrder(n)
  BY DEF OrderInv
<1>3. /\ chain \in [Nodes -> Seq(Block)] /\ mempool \in [Nodes -> Mempool]
      /\ template \in [Nodes -> Seq(Block)] /\ disk \in [Nodes -> Seq(Block)]
      /\ sync \in [Nodes -> Sync]
  BY <1>1, <1>2 DEF Shape, NodeOrder, HistoryFits
<1>4. ASSUME NEW n \in Nodes, NEW h \in DOMAIN chain[n]
      PROVE  Len(chain[n][h].txs) <= MaxBlockTxs
  <2>1. chain[n] \in Seq(Block) /\ Valid(chain[n])
    BY <1>2 DEF NodeOrder, HistoryFits
  <2>2. h \in 1..Len(chain[n])
    BY <2>1, LenProperties
  <2> QED BY <2>1, <2>2, ValidFollows
<1> QED BY <1>2, <1>3, <1>4 DEF TypeOK, OrderInv, NodeOrder

\* The types of a node's variables, and the limits of the mempool and of the
\* blocks, hold whatever its threads do.
THEOREM NodeTypeCorrect == Spec => []TypeOK
BY InitInv, NextInv, OrderHolds, OrderTypes, PTL DEF Spec

\* Whatever order blocks, transactions, reorgs and restarts come in, the chain
\* and then the mempool of a node hold every sender's transactions one per
\* nonce, in order and without a gap.
THEOREM HistoryStaysSequential == Spec => []HistoryIsSequential
<1>1. OrderInv => HistoryIsSequential
  BY HistoryOrdered DEF OrderInv, NodeOrder, HistoryIsSequential
<1> QED BY <1>1, OrderHolds, PTL

-----------------------------------------------------------------------------
(***************************************************************************)
(* The undo journal of a node's ledger (Journal) restores what it          *)
(* promises, for any fields and values, however long the journal, and so   *)
(* implements an atomic ledger.                                            *)
(***************************************************************************)

Record == [items: [Fields -> Slot], list: Seq(Values)]

\* The entries after the first s that appended to the list.
Made(jo, s) == {i \in s + 1 .. Len(jo) : jo[i].key = "list"}

\* Restores, of any state: it and li are the fields and the list, jo the
\* journal.
Field(it, jo, s, was, k) ==
  \/ /\ \A i \in s + 1 .. Len(jo) : jo[i].key # k
     /\ it[k] = was.items[k]
  \/ \E i \in s + 1 .. Len(jo) :
       /\ jo[i].key = k /\ jo[i].old = was.items[k]
       /\ \A j \in s + 1 .. i - 1 : jo[j].key # k

Listed(li, jo, s, was) ==
  /\ Len(li) = Len(was.list) + Cardinality(Made(jo, s))
  /\ was.list = SubSeq(li, 1, Len(was.list))

Back(it, li, jo, s, was) ==
  /\ s <= Len(jo)
  /\ \A k \in Fields : Field(it, jo, s, was, k)
  /\ Listed(li, jo, s, was)

LEMMA RestoresIsBack ==
  \A s, was : Restores(s, was) <=> Back(items, list, journal, s, was)
BY DEF Restores, Back, Field, Listed, Made

LEMMA MadeFinite ==
  ASSUME NEW jo \in Seq(Entry), NEW s \in Nat
  PROVE  IsFiniteSet(Made(jo, s)) /\ Cardinality(Made(jo, s)) \in Nat
<1>1. IsFiniteSet(s + 1 .. Len(jo))
  BY FS_Interval
<1>2. IsFiniteSet(Made(jo, s))
  BY <1>1, FS_Subset DEF Made
<1> QED BY <1>2, FS_CardinalityType

\* An entry at the end of the journal that is not about the list.
LEMMA MadeSame ==
  ASSUME NEW jo \in Seq(Entry), NEW s \in Nat, NEW e \in Entry,
         e.key # "list"
  PROVE  Made(Append(jo, e), s) = Made(jo, s)
<1>1. ASSUME NEW i \in s + 1 .. Len(Append(jo, e)), Append(jo, e)[i].key = "list"
      PROVE  i \in Made(jo, s)
  <2>1. i <= Len(jo)
    BY <1>1
  <2> QED BY <1>1, <2>1 DEF Made
<1>2. ASSUME NEW i \in Made(jo, s)
      PROVE  i \in s + 1 .. Len(Append(jo, e)) /\ Append(jo, e)[i].key = "list"
  BY DEF Made
<1> QED BY <1>1, <1>2 DEF Made

\* One that is.
LEMMA MadeOneMore ==
  ASSUME NEW jo \in Seq(Entry), NEW s \in Nat, NEW e \in Entry,
         e.key = "list", s <= Len(jo)
  PROVE  Cardinality(Made(Append(jo, e), s)) = Cardinality(Made(jo, s)) + 1
<1> DEFINE n == Len(jo) + 1
<1>1. n \notin Made(jo, s)
  BY DEF Made
<1>2. Made(Append(jo, e), s) = Made(jo, s) \union {n}
  <2>1. ASSUME NEW i \in Made(Append(jo, e), s)
        PROVE  i \in Made(jo, s) \union {n}
    BY DEF Made
  <2>2. ASSUME NEW i \in Made(jo, s) \union {n}
        PROVE  i \in Made(Append(jo, e), s)
    BY DEF Made
  <2> QED BY <2>1, <2>2
<1>3. Cardinality(Made(jo, s) \union {n}) = Cardinality(Made(jo, s)) + 1
  BY <1>1, MadeFinite, FS_AddElement
<1> QED BY <1>2, <1>3

\* A fresh journal entry says what is there, and a fresh savepoint is now.
LEMMA BackNow ==
  ASSUME NEW it \in [Fields -> Slot], NEW li \in Seq(Values),
         NEW jo \in Seq(Entry)
  PROVE  Back(it, li, jo, Len(jo), [items |-> it, list |-> li])
<1> DEFINE was == [items |-> it, list |-> li]
<1>1. Made(jo, Len(jo)) = {}
  BY DEF Made
<1>2. Cardinality(Made(jo, Len(jo))) = 0
  BY <1>1, FS_EmptySet
<1>3. Listed(li, jo, Len(jo), was)
  BY <1>2 DEF Listed
<1>4. \A k \in Fields : Field(it, jo, Len(jo), was, k)
  BY DEF Field
<1> QED BY <1>3, <1>4 DEF Back

\* When nothing is left to take back, the state is what it was.
LEMMA BackDone ==
  ASSUME NEW it \in [Fields -> Slot], NEW li \in Seq(Values),
         NEW jo \in Seq(Entry), NEW s \in Nat, NEW was \in Record,
         Back(it, li, jo, s, was), Len(jo) <= s
  PROVE  [items |-> it, list |-> li] = was
<1>1. Len(jo) = s
  BY DEF Back
<1>2. \A k \in Fields : it[k] = was.items[k]
  BY <1>1 DEF Back, Field
<1>3. it = was.items
  BY <1>2 DEF Record
<1>4. Made(jo, s) = {}
  BY <1>1 DEF Made
<1>5. Len(li) = Len(was.list)
  BY <1>4, FS_EmptySet DEF Back, Listed, Record
<1>6. li = was.list
  BY <1>5 DEF Back, Listed, Record
<1> QED BY <1>3, <1>6 DEF Record

\* _touch.
LEMMA BackTouch ==
  ASSUME NEW it \in [Fields -> Slot], NEW li \in Seq(Values),
         NEW jo \in Seq(Entry), NEW s \in Nat, NEW was \in Record,
         Back(it, li, jo, s, was), NEW k \in Fields,
         NEW e \in Entry, e = [key |-> k, old |-> it[k]]
  PROVE  Back(it, li, Append(jo, e), s, was)
<1> DEFINE jp == Append(jo, e)
<1>1. e.key # "list"
  BY JournalAssumption
<1>2. Listed(li, jp, s, was)
  BY <1>1, MadeSame DEF Back, Listed
<1>3. /\ Len(jp) = Len(jo) + 1 /\ jp[Len(jo) + 1] = e
      /\ \A i \in 1 .. Len(jo) : jp[i] = jo[i]
      /\ s <= Len(jo) /\ Len(jo) \in Nat
  BY DEF Back
<1>4. ASSUME NEW x \in Fields
      PROVE  Field(it, jp, s, was, x)
  <2>1. Field(it, jo, s, was, x)
    BY DEF Back
  <2> HIDE DEF jp
  <2>2. CASE \E i \in s + 1 .. Len(jo) :
               /\ jo[i].key = x /\ jo[i].old = was.items[x]
               /\ \A j \in s + 1 .. i - 1 : jo[j].key # x
    <3>1. PICK i \in s + 1 .. Len(jo) :
               /\ jo[i].key = x /\ jo[i].old = was.items[x]
               /\ \A j \in s + 1 .. i - 1 : jo[j].key # x
      BY <2>2
    <3>2. i \in s + 1 .. Len(jp) /\ jp[i] = jo[i]
      BY <1>3
    <3>3. \A j \in s + 1 .. i - 1 : jp[j] = jo[j]
      BY <1>3
    <3> QED BY <3>1, <3>2, <3>3 DEF Field
  <2>3. CASE /\ \A i \in s + 1 .. Len(jo) : jo[i].key # x
             /\ it[x] = was.items[x]
    <3>1. CASE x = k
      <4>1. \A j \in s + 1 .. (Len(jo) + 1) - 1 : jp[j].key # x
        BY <1>3, <2>3
      <4>2. e.key = x /\ e.old = was.items[x]
        BY <2>3, <3>1
      <4>3. Len(jo) + 1 \in s + 1 .. Len(jp)
        BY <1>3
      <4> QED BY <1>3, <4>1, <4>2, <4>3 DEF Field
    <3>2. CASE x # k
      <4>1. \A j \in s + 1 .. Len(jp) : jp[j].key # x
        BY <1>3, <2>3, <3>2
      <4> QED BY <4>1, <2>3 DEF Field
    <3> QED BY <3>1, <3>2
  <2> QED BY <2>1, <2>2, <2>3 DEF Field
<1> QED BY <1>2, <1>3, <1>4 DEF Back

\* A write to a field touched after the savepoint.
LEMMA BackWrite ==
  ASSUME NEW it \in [Fields -> Slot], NEW li \in Seq(Values),
         NEW jo \in Seq(Entry), NEW s \in Nat, NEW was \in Record,
         Back(it, li, jo, s, was), NEW k \in Fields, NEW v \in Slot,
         \E i \in s + 1 .. Len(jo) : jo[i].key = k
  PROVE  Back([it EXCEPT ![k] = v], li, jo, s, was)
<1> DEFINE iu == [it EXCEPT ![k] = v]
<1>1. ASSUME NEW x \in Fields
      PROVE  Field(iu, jo, s, was, x)
  <2>1. Field(it, jo, s, was, x)
    BY DEF Back
  <2>2. CASE x = k
    BY <2>1, <2>2 DEF Field
  <2>3. CASE x # k
    <3>1. iu[x] = it[x]
      BY <2>3
    <3> QED BY <2>1, <3>1 DEF Field
  <2> QED BY <2>2, <2>3
<1> QED BY <1>1 DEF Back

\* _append.
LEMMA BackAppend ==
  ASSUME NEW it \in [Fields -> Slot], NEW li \in Seq(Values),
         NEW jo \in Seq(Entry), NEW s \in Nat, NEW was \in Record,
         Back(it, li, jo, s, was), NEW v \in Values,
         NEW e \in Entry, e.key = "list"
  PROVE  Back(it, Append(li, v), Append(jo, e), s, was)
<1> DEFINE jp == Append(jo, e)
           lp == Append(li, v)
<1>1. /\ Len(jp) = Len(jo) + 1 /\ jp[Len(jo) + 1] = e
      /\ \A i \in 1 .. Len(jo) : jp[i] = jo[i]
      /\ s <= Len(jo) /\ Len(jo) \in Nat
  BY DEF Back
<1>2. ASSUME NEW x \in Fields
      PROVE  Field(it, jp, s, was, x)
  <2>1. Field(it, jo, s, was, x)
    BY DEF Back
  <2>2. e.key # x
    BY JournalAssumption
  <2> HIDE DEF jp
  <2>3. CASE \E i \in s + 1 .. Len(jo) :
               /\ jo[i].key = x /\ jo[i].old = was.items[x]
               /\ \A j \in s + 1 .. i - 1 : jo[j].key # x
    <3>1. PICK i \in s + 1 .. Len(jo) :
               /\ jo[i].key = x /\ jo[i].old = was.items[x]
               /\ \A j \in s + 1 .. i - 1 : jo[j].key # x
      BY <2>3
    <3>2. i \in s + 1 .. Len(jp) /\ jp[i] = jo[i]
      BY <1>1
    <3>3. \A j \in s + 1 .. i - 1 : jp[j] = jo[j]
      BY <1>1
    <3> QED BY <3>1, <3>2, <3>3 DEF Field
  <2>4. CASE /\ \A i \in s + 1 .. Len(jo) : jo[i].key # x
             /\ it[x] = was.items[x]
    <3>1. \A j \in s + 1 .. Len(jp) : jp[j].key # x
      BY <1>1, <2>2, <2>4
    <3> QED BY <3>1, <2>4 DEF Field
  <2> QED BY <2>1, <2>3, <2>4 DEF Field
<1>3. Listed(lp, jp, s, was)
  <2>1. Cardinality(Made(jp, s)) = Cardinality(Made(jo, s)) + 1
    BY <1>1, MadeOneMore
  <2>2. Cardinality(Made(jo, s)) \in Nat
    BY MadeFinite
  <2>3. /\ Len(li) = Len(was.list) + Cardinality(Made(jo, s))
        /\ was.list = SubSeq(li, 1, Len(was.list))
    BY DEF Back, Listed
  <2>4. was.list \in Seq(Values) /\ Len(was.list) \in Nat
    BY DEF Record
  <2>5. Len(was.list) <= Len(li)
    BY <2>2, <2>3, <2>4
  <2>6. SubSeq(lp, 1, Len(was.list)) = SubSeq(li, 1, Len(was.list))
    BY <2>4, <2>5
  <2>7. Len(lp) = Len(was.list) + Cardinality(Made(jp, s))
    <3>1. Len(lp) = Len(li) + 1
      OBVIOUS
    <3> HIDE DEF lp, jp
    <3> QED BY <3>1, <2>1, <2>2, <2>3, <2>4
  <2> QED BY <2>3, <2>6, <2>7 DEF Listed
<1> QED BY <1>1, <1>2, <1>3 DEF Back

\* One turn of rollback's loop takes (it, li, jo) to (iu, lp, jp).
TakesBack(it, li, jo, iu, lp, jp) ==
  LET e == jo[Len(jo)]
  IN /\ jp = SubSeq(jo, 1, Len(jo) - 1)
     /\ IF e.key = "list"
        THEN lp = SubSeq(li, 1, Len(li) - 1) /\ iu = it
        ELSE iu = [it EXCEPT ![e.key] = e.old] /\ lp = li

\* One entry less.
LEMMA BackUndo ==
  ASSUME NEW it \in [Fields -> Slot], NEW li \in Seq(Values),
         NEW jo \in Seq(Entry), NEW s \in Nat, NEW was \in Record,
         Back(it, li, jo, s, was), s < Len(jo),
         NEW iu, NEW lp, NEW jp, TakesBack(it, li, jo, iu, lp, jp)
  PROVE  /\ iu \in [Fields -> Slot] /\ lp \in Seq(Values) /\ jp \in Seq(Entry)
         /\ Back(iu, lp, jp, s, was)
<1> DEFINE e == jo[Len(jo)]
<1>0. /\ jp = SubSeq(jo, 1, Len(jo) - 1)
      /\ IF e.key = "list"
         THEN lp = SubSeq(li, 1, Len(li) - 1) /\ iu = it
         ELSE iu = [it EXCEPT ![e.key] = e.old] /\ lp = li
  BY DEF TakesBack
<1>1. /\ Len(jo) \in Nat /\ Len(jp) = Len(jo) - 1
      /\ \A i \in 1 .. Len(jp) : jp[i] = jo[i]
      /\ jp \in Seq(Entry)
      /\ \A i \in 1 .. Len(jo) : jo[i] \in Entry
      /\ e \in Entry
  <2>1. Len(jo) \in Nat /\ Len(jo) >= 1 /\ Len(jo) - 1 \in Nat
    OBVIOUS
  <2>2. \A i \in 1 .. Len(jo) : jo[i] \in Entry
    OBVIOUS
  <2>3. e \in Entry
    BY <2>1, <2>2
  <2>4. /\ jp \in Seq(Entry) /\ Len(jp) = Len(jo) - 1
        /\ \A i \in 1 .. Len(jp) : jp[i] = jo[i]
    <3>1. \A i \in 1 .. Len(jo) - 1 : jo[i] \in Entry
      BY <2>1, <2>2
    <3>2. jp \in Seq(Entry)
      BY <1>0, <2>1, <3>1, SubSeqProperties
    <3>3. Len(jp) = Len(jo) - 1
      <4>1. Len(jp) = IF 1 <= Len(jo) - 1 THEN (Len(jo) - 1) - 1 + 1 ELSE 0
        BY <1>0, <2>1, <3>1, SubSeqProperties
      <4> DEFINE n == Len(jo)  q == Len(jp)
      <4>2. n \in Nat /\ n >= 1 /\ q = IF 1 <= n - 1 THEN (n - 1) - 1 + 1 ELSE 0
        BY <2>1, <4>1
      <4> HIDE DEF n, q
      <4>3. q = n - 1
        BY <4>2
      <4> QED BY <4>3 DEF n, q
    <3>4. \A i \in 1 .. (Len(jo) - 1) - 1 + 1 : jp[i] = jo[1 + i - 1]
      BY <1>0, <2>1, <3>1, SubSeqProperties
    <3>5. \A i \in 1 .. Len(jo) - 1 : jp[i] = jo[i]
      BY <2>1, <3>4
    <3> QED BY <3>2, <3>3, <3>5
  <2> QED BY <2>1, <2>2, <2>3, <2>4
<1>2. s <= Len(jp)
  BY <1>1
<1>3. /\ Len(li) = Len(was.list) + Cardinality(Made(jo, s))
      /\ was.list = SubSeq(li, 1, Len(was.list))
      /\ was.list \in Seq(Values) /\ Len(was.list) \in Nat
      /\ was.items \in [Fields -> Slot]
  BY DEF Back, Listed, Record
<1> HIDE DEF e
<1>4. ASSUME NEW x \in Fields, NEW y,
             y = IF x = e.key THEN e.old ELSE it[x],
             iu[x] = y
      PROVE  Field(iu, jp, s, was, x)
  <2>1. Field(it, jo, s, was, x)
    BY DEF Back
  <2>2. CASE \E i \in s + 1 .. Len(jo) :
               /\ jo[i].key = x /\ jo[i].old = was.items[x]
               /\ \A j \in s + 1 .. i - 1 : jo[j].key # x
    <3>1. PICK i \in s + 1 .. Len(jo) :
               /\ jo[i].key = x /\ jo[i].old = was.items[x]
               /\ \A j \in s + 1 .. i - 1 : jo[j].key # x
      BY <2>2
    <3>2. CASE i = Len(jo)
      <4>1. y = was.items[x]
        BY <1>4, <3>1, <3>2 DEF e
      <4>2. \A j \in s + 1 .. Len(jp) : jp[j] = jo[j] /\ j \in s + 1 .. i - 1
        BY <1>1, <3>2
      <4>3. \A j \in s + 1 .. Len(jp) : jp[j].key # x
        BY <3>1, <4>2
      <4> QED BY <4>1, <4>3, <1>4 DEF Field
    <3>3. CASE i # Len(jo)
      <4>0. i \in s + 1 .. Len(jp) /\ i \in 1 .. Len(jp)
        BY <1>1, <3>3
      <4>1. jp[i] = jo[i]
        BY <1>1, <4>0
      <4>2. ASSUME NEW j \in s + 1 .. i - 1
            PROVE  jp[j] = jo[j]
        <5>1. j \in 1 .. Len(jp)
          BY <1>1, <4>0
        <5> QED BY <1>1, <5>1
      <4>3. \A j \in s + 1 .. i - 1 : jp[j].key # x
        BY <3>1, <4>2
      <4> QED BY <3>1, <4>0, <4>1, <4>3 DEF Field
    <3> QED BY <3>2, <3>3
  <2>3. CASE /\ \A i \in s + 1 .. Len(jo) : jo[i].key # x
             /\ it[x] = was.items[x]
    <3>1. e.key # x
      BY <1>1, <2>3 DEF e
    <3>2. \A j \in s + 1 .. Len(jp) : jp[j].key # x
      BY <1>1, <2>3
    <3> QED BY <3>1, <3>2, <2>3, <1>4 DEF Field
  <2> QED BY <2>1, <2>2, <2>3 DEF Field
<1>5. CASE e.key = "list"
  <2>1. iu = it /\ lp = SubSeq(li, 1, Len(li) - 1)
    BY <1>0, <1>5
  <2>2. Len(jo) \in Made(jo, s)
    BY <1>1, <1>5 DEF Made, e
  <2>3. Made(jp, s) = Made(jo, s) \ {Len(jo)}
    <3>1. ASSUME NEW i \in Made(jp, s)
          PROVE  i \in Made(jo, s) \ {Len(jo)}
      BY <1>1 DEF Made
    <3>2. ASSUME NEW i \in Made(jo, s) \ {Len(jo)}
          PROVE  i \in Made(jp, s)
      BY <1>1 DEF Made
    <3> QED BY <3>1, <3>2
  <2>4. Cardinality(Made(jp, s)) = Cardinality(Made(jo, s)) - 1
    <3>1. IsFiniteSet(Made(jo, s)) /\ Cardinality(Made(jo, s)) \in Nat
      BY MadeFinite
    <3> DEFINE A == Made(jo, s)  n == Len(jo)
    <3>2. n \in A /\ Made(jp, s) = A \ {n} /\ IsFiniteSet(A)
      BY <2>2, <2>3, <3>1
    <3> HIDE DEF A, n
    <3>3. Cardinality(A \ {n}) = Cardinality(A) - 1
      BY <3>2, FS_RemoveElement
    <3> QED BY <3>2, <3>3 DEF A
  <2>5. Cardinality(Made(jp, s)) \in Nat /\ Cardinality(Made(jo, s)) \in Nat
    BY <1>1, MadeFinite
  <2>6. Len(li) \in Nat /\ Len(li) >= 1 /\ Len(was.list) <= Len(li) - 1
    BY <1>3, <2>4, <2>5
  <2>7. /\ lp \in Seq(Values) /\ Len(lp) = Len(li) - 1
        /\ SubSeq(lp, 1, Len(was.list)) = SubSeq(li, 1, Len(was.list))
    BY <1>3, <2>1, <2>6
  <2>8. Listed(lp, jp, s, was)
    BY <1>3, <2>4, <2>5, <2>6, <2>7 DEF Listed
  <2>9. ASSUME NEW x \in Fields
        PROVE  Field(iu, jp, s, was, x)
    <3>1. x # e.key
      BY <1>5, JournalAssumption
    <3> QED BY <3>1, <2>1, <1>4
  <2> QED BY <1>1, <1>2, <2>1, <2>7, <2>8, <2>9 DEF Back
<1>6. CASE e.key # "list"
  <2>1. iu = [it EXCEPT ![e.key] = e.old] /\ lp = li
    BY <1>0, <1>6
  <2>2. e.key \in Fields /\ e.old \in Slot
    BY <1>1, <1>6 DEF Entry
  <2>3. iu \in [Fields -> Slot]
    BY <2>1, <2>2
  <2>4. Made(jp, s) = Made(jo, s)
    <3>1. ASSUME NEW i \in Made(jp, s)
          PROVE  i \in Made(jo, s)
      BY <1>1 DEF Made
    <3>2. ASSUME NEW i \in Made(jo, s)
          PROVE  i \in Made(jp, s)
      BY <1>1, <1>6 DEF Made, e
    <3> QED BY <3>1, <3>2
  <2>5. Listed(lp, jp, s, was)
    BY <1>3, <2>1, <2>4 DEF Listed
  <2>6. ASSUME NEW x \in Fields
        PROVE  Field(iu, jp, s, was, x)
    <3>1. iu[x] = IF x = e.key THEN e.old ELSE it[x]
      BY <2>1, <2>2
    <3> QED BY <3>1, <1>4
  <2> QED BY <1>1, <1>2, <2>1, <2>3, <2>5, <2>6 DEF Back
<1> QED BY <1>5, <1>6

----------------------------------------------------------------------------
\* Which step goes with which section, and what apply_tx remembers.
Phases ==
  /\ open <=> section # "none"
  /\ step = "none" <=> section = "none"
  /\ step = "open" => section \in {"block", "template"}
  /\ step = "undoAll" => section \in {"block", "template"}
  /\ step = "coinbase" => section = "block"
  /\ step \in {"tx", "undo"} =>
       /\ outer <=> section # "single"
       /\ section = "single" => savepoint = 0

SectionKept == section # "none" => Back(items, list, journal, 0, before)

TxKept ==
  step \in {"tx", "undo"} => Back(items, list, journal, savepoint, began)

JournalIInv == JournalTypeOK /\ Phases /\ SectionKept /\ TxKept

LEMMA JournalBegins == JournalInit => JournalIInv
<1> SUFFICES ASSUME JournalInit PROVE JournalIInv
  OBVIOUS
<1>1. Absent \in Slot
  BY DEF Slot
<1>2. items \in [Fields -> Slot] /\ list \in Seq(Values) /\ journal \in Seq(Entry)
  BY <1>1 DEF JournalInit
<1>3. JournalTypeOK
  BY <1>1, <1>2 DEF JournalTypeOK, JournalInit, Store
<1> QED BY <1>3 DEF JournalIInv, Phases, SectionKept, TxKept, JournalInit

\* Fields that a step of a section leaves alone.
Frame == UNCHANGED <<open, section, step, savepoint, outer, before, began>>

\* Before and began are records as rollback needs them.
LEMMA Records == JournalTypeOK => before \in Record /\ began \in Record
BY DEF JournalTypeOK, Record

LEMMA TouchInv ==
  ASSUME JournalIInv, NEW k \in Fields, Touch(k)
  PROVE  JournalIInv'
<1> DEFINE e == Saved(k)
<1>1. e \in Entry /\ e = [key |-> k, old |-> items[k]]
  BY DEF Saved, Entry, JournalIInv, JournalTypeOK
<1> HIDE DEF e
<1>2. journal' = Append(journal, e) /\ UNCHANGED <<items, list, answer>> /\ Frame
  BY DEF Touch, Frame, e
<1>3. JournalTypeOK
  BY DEF JournalIInv
<1>4. journal' \in Seq(Entry)
  BY <1>1, <1>2, <1>3 DEF JournalTypeOK
<1>5. JournalTypeOK'
  BY <1>2, <1>3, <1>4 DEF JournalTypeOK, Frame
<1>6. Phases'
  BY <1>2 DEF JournalIInv, Phases, Frame
<1>7. SectionKept'
  <2>1. CASE section # "none"
    <3>1. Back(items, list, journal, 0, before)
      BY <2>1 DEF JournalIInv, SectionKept
    <3>2. Back(items, list, Append(journal, e), 0, before)
      BY <3>1, <1>1, <1>3, Records, BackTouch DEF JournalTypeOK
    <3> QED BY <3>2, <1>2 DEF SectionKept, Frame
  <2> QED BY <2>1, <1>2 DEF SectionKept, Frame
<1>8. TxKept'
  <2>1. CASE step \in {"tx", "undo"}
    <3>1. Back(items, list, journal, savepoint, began)
      BY <2>1 DEF JournalIInv, TxKept
    <3>2. Back(items, list, Append(journal, e), savepoint, began)
      BY <3>1, <1>1, <1>3, Records, BackTouch DEF JournalTypeOK
    <3> QED BY <3>2, <1>2 DEF TxKept, Frame
  <2> QED BY <2>1, <1>2 DEF TxKept, Frame
<1> QED BY <1>5, <1>6, <1>7, <1>8 DEF JournalIInv

LEMMA WriteInv ==
  ASSUME JournalIInv, NEW k \in Fields, NEW v \in Slot, Write(k, v)
  PROVE  JournalIInv'
<1>1. items' = [items EXCEPT ![k] = v] /\ UNCHANGED <<list, journal, answer>> /\ Frame
  BY DEF Write, Frame
<1>2. JournalTypeOK
  BY DEF JournalIInv
<1>3. JournalTypeOK'
  BY <1>1, <1>2 DEF JournalTypeOK, Frame
<1>4. Phases'
  BY <1>1 DEF JournalIInv, Phases, Frame
<1>5. savepoint \in Nat /\ Len(journal) \in Nat
  BY <1>2 DEF JournalTypeOK
<1>6. \E i \in savepoint + 1 .. Len(journal) : journal[i].key = k
  BY DEF Write, Touched
<1>7. \E i \in 0 + 1 .. Len(journal) : journal[i].key = k
  <2>1. PICK i \in savepoint + 1 .. Len(journal) : journal[i].key = k
    BY <1>6
  <2>2. i \in 0 + 1 .. Len(journal)
    BY <1>5
  <2> QED BY <2>1, <2>2
<1>8. SectionKept'
  <2>1. CASE section # "none"
    <3>1. Back(items, list, journal, 0, before)
      BY <2>1 DEF JournalIInv, SectionKept
    <3>2. Back([items EXCEPT ![k] = v], list, journal, 0, before)
      BY <3>1, <1>2, <1>7, Records, BackWrite DEF JournalTypeOK
    <3> QED BY <3>2, <1>1 DEF SectionKept, Frame
  <2> QED BY <2>1, <1>1 DEF SectionKept, Frame
<1>9. TxKept'
  <2>1. CASE step \in {"tx", "undo"}
    <3>1. Back(items, list, journal, savepoint, began)
      BY <2>1 DEF JournalIInv, TxKept
    <3>2. Back([items EXCEPT ![k] = v], list, journal, savepoint, began)
      BY <3>1, <1>2, <1>6, Records, BackWrite DEF JournalTypeOK
    <3> QED BY <3>2, <1>1 DEF TxKept, Frame
  <2> QED BY <2>1, <1>1 DEF TxKept, Frame
<1> QED BY <1>3, <1>4, <1>8, <1>9 DEF JournalIInv

LEMMA AppendInv ==
  ASSUME JournalIInv, NEW v \in Values, AppendItem(v)
  PROVE  JournalIInv'
<1> DEFINE e == [key |-> "list", old |-> Absent]
<1>1. e \in Entry /\ e.key = "list"
  BY DEF Entry, Slot
<1> HIDE DEF e
<1>2. /\ journal' = Append(journal, e) /\ list' = Append(list, v)
      /\ UNCHANGED <<items, answer>> /\ Frame
  BY DEF AppendItem, Frame, e
<1>3. JournalTypeOK
  BY DEF JournalIInv
<1>4. journal' \in Seq(Entry) /\ list' \in Seq(Values)
  BY <1>1, <1>2, <1>3 DEF JournalTypeOK
<1>5. JournalTypeOK'
  BY <1>2, <1>3, <1>4 DEF JournalTypeOK, Frame
<1>6. Phases'
  BY <1>2 DEF JournalIInv, Phases, Frame
<1>7. SectionKept'
  <2>1. CASE section # "none"
    <3>1. Back(items, list, journal, 0, before)
      BY <2>1 DEF JournalIInv, SectionKept
    <3>2. Back(items, Append(list, v), Append(journal, e), 0, before)
      BY <3>1, <1>1, <1>3, Records, BackAppend DEF JournalTypeOK
    <3> QED BY <3>2, <1>2 DEF SectionKept, Frame
  <2> QED BY <2>1, <1>2 DEF SectionKept, Frame
<1>8. TxKept'
  <2>1. CASE step \in {"tx", "undo"}
    <3>1. Back(items, list, journal, savepoint, began)
      BY <2>1 DEF JournalIInv, TxKept
    <3>2. Back(items, Append(list, v), Append(journal, e), savepoint, began)
      BY <3>1, <1>1, <1>3, Records, BackAppend DEF JournalTypeOK
    <3> QED BY <3>2, <1>2 DEF TxKept, Frame
  <2> QED BY <2>1, <1>2 DEF TxKept, Frame
<1> QED BY <1>5, <1>6, <1>7, <1>8 DEF JournalIInv

\* A rollback stops at a savepoint, so it never takes back more than the
\* invariant can answer for.
LEMMA UndoInv ==
  ASSUME JournalIInv, Undo
  PROVE  JournalIInv'
<1> DEFINE e == journal[Len(journal)]
           iu == items'
           lp == list'
           jp == journal'
<1>1. JournalTypeOK
  BY DEF JournalIInv
<1>2. /\ journal' = SubSeq(journal, 1, Len(journal) - 1)
      /\ IF e.key = "list"
         THEN list' = SubSeq(list, 1, Len(list) - 1) /\ items' = items
         ELSE items' = [items EXCEPT ![e.key] = e.old] /\ list' = list
      /\ UNCHANGED answer /\ Frame
  BY DEF Undo, Frame
<1>3. step \in {"undo", "undoAll"} /\ Len(journal) > Target
  BY DEF Undo
<1>4. section # "none"
  BY <1>3 DEF JournalIInv, Phases
<1>5. savepoint \in Nat /\ Len(journal) \in Nat
  BY <1>1 DEF JournalTypeOK
<1>6. Target \in Nat /\ 0 < Len(journal)
  BY <1>3, <1>5 DEF Target
<1>7. Back(items, list, journal, 0, before)
  BY <1>4 DEF JournalIInv, SectionKept
<1> HIDE DEF e
<1> HIDE DEF iu, lp, jp
<1>a. /\ items \in [Fields -> Slot] /\ list \in Seq(Values)
      /\ journal \in Seq(Entry)
  BY <1>1 DEF JournalTypeOK
<1>b. TakesBack(items, list, journal, iu, lp, jp)
  BY <1>2 DEF TakesBack, e, iu, lp, jp
<1>d. ASSUME NEW s \in Nat, NEW was \in Record, s < Len(journal),
             Back(items, list, journal, s, was)
      PROVE  /\ iu \in [Fields -> Slot] /\ lp \in Seq(Values)
             /\ jp \in Seq(Entry) /\ Back(iu, lp, jp, s, was)
  BY <1>a, <1>b, <1>d, BackUndo
<1>8. /\ items' \in [Fields -> Slot] /\ list' \in Seq(Values)
      /\ journal' \in Seq(Entry)
      /\ Back(items', list', journal', 0, before)
  <2>1. before \in Record /\ 0 < Len(journal) /\ 0 \in Nat
    BY <1>1, <1>6, Records
  <2>2. /\ iu \in [Fields -> Slot] /\ lp \in Seq(Values)
        /\ jp \in Seq(Entry) /\ Back(iu, lp, jp, 0, before)
    BY <2>1, <1>7, <1>d
  <2> QED BY <2>2 DEF iu, lp, jp
<1>9. JournalTypeOK'
  BY <1>1, <1>2, <1>8 DEF JournalTypeOK, Frame
<1>10. Phases'
  BY <1>2 DEF JournalIInv, Phases, Frame
<1>11. SectionKept'
  BY <1>2, <1>8 DEF SectionKept, Frame
<1>12. TxKept'
  <2>1. CASE step = "undo"
    <3>1. Back(items, list, journal, savepoint, began) /\ savepoint < Len(journal)
      BY <2>1, <1>3, <1>5 DEF JournalIInv, TxKept, Target
    <3>2. began \in Record
      BY <1>1, Records
    <3>3. Back(iu, lp, jp, savepoint, began)
      BY <3>1, <3>2, <1>5, <1>d
    <3>5. Back(items', list', journal', savepoint, began)
      BY <3>3 DEF iu, lp, jp
    <3> QED BY <3>5, <1>2 DEF TxKept, Frame
  <2>2. CASE step = "undoAll"
    BY <2>2, <1>2 DEF TxKept, Frame
  <2> QED BY <2>1, <2>2, <1>3
<1> QED BY <1>9, <1>10, <1>11, <1>12 DEF JournalIInv

\* begin: the section's journal, or a fresh one.
LEMMA NestedNow ==
  ASSUME JournalIInv
  PROVE  /\ Nested \in Seq(Entry) /\ Len(Nested) \in Nat
         /\ section # "none" => Nested = journal
         /\ section = "none" => Nested = << >>
         /\ Store \in Record
         /\ Back(items, list, Nested, Len(Nested), Store)
<1>1. JournalTypeOK
  BY DEF JournalIInv
<1>2. Nested \in Seq(Entry)
  BY <1>1 DEF Nested, JournalTypeOK
<1>3. Store \in Record
  BY <1>1 DEF Store, Record, JournalTypeOK
<1>4. Back(items, list, Nested, Len(Nested), Store)
  BY <1>1, <1>2, BackNow DEF JournalTypeOK, Store
<1> QED BY <1>2, <1>3, <1>4 DEF JournalIInv, Phases, Nested

\* The steps that leave fields and list alone: entering and leaving apply_tx
\* and the sections around it.
Still == UNCHANGED <<items, list>>

LEMMA BeginTxInv ==
  ASSUME JournalIInv, BeginTx
  PROVE  JournalIInv'
<1>1. /\ step = "open" /\ section' = section /\ step' = "tx" /\ journal' = Nested
      /\ open' = TRUE /\ savepoint' = Len(Nested) /\ outer' = open
      /\ began' = Store /\ before' = before /\ answer' = answer /\ Still
  BY DEF BeginTx, Enter, Still
<1>2. section \in {"block", "template"} /\ open
  BY <1>1 DEF JournalIInv, Phases
<1>3. JournalTypeOK'
  BY <1>1, <1>2, NestedNow DEF JournalIInv, JournalTypeOK, Still, Record
<1>4. Phases'
  BY <1>1, <1>2 DEF Phases
<1>5. SectionKept'
  BY <1>1, <1>2, NestedNow DEF JournalIInv, SectionKept, Still
<1>6. TxKept'
  BY <1>1, NestedNow DEF TxKept, Still
<1> QED BY <1>3, <1>4, <1>5, <1>6 DEF JournalIInv

LEMMA BeginSingleInv ==
  ASSUME JournalIInv, BeginSingle
  PROVE  JournalIInv'
<1>1. /\ section = "none" /\ section' = "single" /\ step' = "tx"
      /\ journal' = Nested /\ open' = TRUE /\ savepoint' = Len(Nested)
      /\ outer' = open /\ began' = Store /\ before' = Store /\ answer' = answer
      /\ Still
  BY DEF BeginSingle, Enter, Still
<1>2. ~open /\ open \in BOOLEAN
  BY <1>1 DEF JournalIInv, Phases, JournalTypeOK
<1>3. Nested = << >> /\ Len(Nested) = 0
  BY <1>1, NestedNow
<1>4. JournalTypeOK'
  BY <1>1, <1>2, NestedNow DEF JournalIInv, JournalTypeOK, Still, Record
<1>5. Phases'
  BY <1>1, <1>2, <1>3 DEF Phases
<1>6. SectionKept' /\ TxKept'
  <2>1. Back(items, list, Nested, 0, Store)
    BY <1>3, NestedNow
  <2>2. Back(items', list', journal', 0, before')
    BY <2>1, <1>1 DEF Still
  <2>3. Back(items', list', journal', savepoint', began')
    BY <2>1, <1>1, <1>3 DEF Still
  <2> QED BY <2>2, <2>3 DEF SectionKept, TxKept
<1> QED BY <1>4, <1>5, <1>6 DEF JournalIInv

LEMMA BeginSectionInv ==
  ASSUME JournalIInv, BeginSection
  PROVE  JournalIInv'
<1>1. /\ section = "none" /\ section' \in {"block", "template"}
      /\ step' = "open" /\ journal' = Nested /\ open' = TRUE
      /\ before' = Store
      /\ UNCHANGED <<savepoint, outer, began, answer>> /\ Still
  BY DEF BeginSection, Still
<1>2. Nested = << >> /\ Len(Nested) = 0
  BY <1>1, NestedNow
<1>3. JournalTypeOK'
  BY <1>1, NestedNow DEF JournalIInv, JournalTypeOK, Still, Record
<1>4. Phases'
  BY <1>1 DEF Phases
<1>5. SectionKept'
  <2>1. Back(items, list, Nested, 0, Store)
    BY <1>2, NestedNow
  <2> QED BY <2>1, <1>1 DEF SectionKept, Still
<1>6. TxKept'
  BY <1>1 DEF TxKept
<1> QED BY <1>3, <1>4, <1>5, <1>6 DEF JournalIInv

\* A transaction is done with, applied or taken back.
LEMMA LeaveInv ==
  ASSUME JournalIInv, step \in {"tx", "undo"}, Leave
  PROVE  JournalIInv'
<1>1. /\ open' = outer
      /\ section' = IF section = "single" THEN "none" ELSE section
      /\ step' = IF section = "single" THEN "none" ELSE "open"
      /\ UNCHANGED <<journal, savepoint, outer, before, began, answer>> /\ Still
  BY DEF Leave, StaysOpen, Still
<1>2. /\ outer <=> section # "single"
      /\ section # "none" /\ section \in {"none", "block", "template", "single"}
  BY DEF JournalIInv, Phases, JournalTypeOK
<1>3. JournalTypeOK'
  BY <1>1, <1>2 DEF JournalIInv, JournalTypeOK, Still
<1>4. Phases'
  BY <1>1, <1>2 DEF Phases
<1>5. SectionKept'
  BY <1>1, <1>2 DEF JournalIInv, SectionKept, Still
<1>6. TxKept'
  BY <1>1 DEF TxKept
<1> QED BY <1>3, <1>4, <1>5, <1>6 DEF JournalIInv

\* The steps that only change what is being done.
LEMMA MarkInv ==
  ASSUME JournalIInv, Raise \/ BeginCoinbase \/ BlockStands \/ GiveUp \/ GivenUp
               \/ (Undone /\ section = "block")
  PROVE  JournalIInv'
<1>1. UNCHANGED <<journal, outer, before, answer>> /\ Still
  BY DEF Raise, BeginCoinbase, BlockStands, GiveUp, GivenUp, Undone, Leave, Still
<1>2. CASE Raise
  <2>1. step = "tx" /\ step' = "undo" /\ UNCHANGED <<open, section, savepoint, began>>
    BY <1>2 DEF Raise
  <2> QED BY <1>1, <2>1 DEF JournalIInv, JournalTypeOK, Phases, SectionKept, TxKept, Still
<1>3. CASE BeginCoinbase
  <2>1. /\ section = "block" /\ step' = "coinbase" /\ UNCHANGED <<open, section>>
        /\ savepoint' = Len(journal) /\ began' = Store
    BY <1>3 DEF BeginCoinbase
  <2>2. Len(journal) \in Nat /\ Store \in Record
    BY NestedNow DEF JournalIInv, JournalTypeOK
  <2> QED BY <1>1, <2>1, <2>2
          DEF JournalIInv, JournalTypeOK, Phases, SectionKept, TxKept, Still, Record
<1>4. CASE BlockStands \/ GivenUp
  <2>1. /\ section' = "none" /\ step' = "none" /\ open' = FALSE
        /\ UNCHANGED <<savepoint, began>>
    BY <1>4 DEF BlockStands, GivenUp
  <2> QED BY <1>1, <2>1 DEF JournalIInv, JournalTypeOK, Phases, SectionKept, TxKept, Still
<1>5. CASE GiveUp
  <2>1. /\ step \in {"open", "coinbase"} /\ step' = "undoAll"
        /\ UNCHANGED <<open, section, savepoint, began>>
    BY <1>5 DEF GiveUp
  <2> QED BY <1>1, <2>1 DEF JournalIInv, JournalTypeOK, Phases, SectionKept, TxKept, Still
<1>6. CASE Undone /\ section = "block"
  <2>1. step' = "undoAll" /\ UNCHANGED <<open, section, savepoint, began>>
    BY <1>6 DEF Undone
  <2> QED BY <1>1, <1>6, <2>1 DEF JournalIInv, JournalTypeOK, Phases, SectionKept, TxKept, Still
<1> QED BY <1>2, <1>3, <1>4, <1>5, <1>6

LEMMA GetInv ==
  ASSUME JournalIInv, NEW k \in Fields, Get(k)
  PROVE  JournalIInv'
<1>1. /\ answer' = [said |-> items[k], confirmed |-> Settled.items[k]]
      /\ UNCHANGED journal /\ Still /\ Frame
  BY DEF Get, Still, Frame
<1>2. Settled \in Record
  BY NestedNow, Records DEF Settled, JournalIInv
<1>3. answer' \in [said: Slot, confirmed: Slot]
  BY <1>1, <1>2 DEF JournalIInv, JournalTypeOK, Record
<1> QED BY <1>1, <1>3
       DEF JournalIInv, JournalTypeOK, Phases, SectionKept, TxKept, Still, Frame

LEMMA JournalStep == JournalIInv /\ [JournalNext]_journalVars => JournalIInv'
<1> SUFFICES ASSUME JournalIInv, [JournalNext]_journalVars PROVE JournalIInv'
  OBVIOUS
<1>1. CASE Handler
  BY <1>1, TouchInv, WriteInv, AppendInv DEF Handler
<1>2. CASE Undo
  BY <1>2, UndoInv
<1>3. CASE BeginTx
  BY <1>3, BeginTxInv
<1>4. CASE BeginSingle
  BY <1>4, BeginSingleInv
<1>5. CASE Succeed
  BY <1>5, LeaveInv DEF Succeed
<1>6. CASE Undone
  <2>1. CASE section = "block"
    BY <1>6, <2>1, MarkInv
  <2>2. CASE section # "block"
    BY <1>6, <2>2, LeaveInv DEF Undone
  <2> QED BY <2>1, <2>2
<1>7. CASE Raise \/ BeginCoinbase \/ BlockStands \/ GiveUp \/ GivenUp
  BY <1>7, MarkInv
<1>8. CASE BeginSection
  BY <1>8, BeginSectionInv
<1>9. CASE \E k \in Fields : Get(k)
  BY <1>9, GetInv
<1>10. CASE UNCHANGED journalVars
  BY <1>10 DEF journalVars, JournalIInv, JournalTypeOK, Phases, SectionKept, TxKept
<1> QED BY <1>1, <1>2, <1>3, <1>4, <1>5, <1>6, <1>7, <1>8, <1>9, <1>10 DEF JournalNext

LEMMA InvHolds == JournalSpec => []JournalIInv
BY JournalBegins, JournalStep, PTL DEF JournalSpec

\* The fields of the state keep their types while a journal is open and when
\* one is taken back.
THEOREM JournalTypeCorrect == JournalSpec => []JournalTypeOK
<1>1. JournalIInv => JournalTypeOK
  BY DEF JournalIInv
<1> QED BY <1>1, InvHolds, PTL

\* Whatever a handler has written when it raises, rollback takes the state
\* back to the savepoint, and to the beginning of the section.
THEOREM RollbackRestores == JournalSpec => []JournalRestores
<1>1. JournalIInv => JournalRestores
  BY RestoresIsBack DEF JournalIInv, Phases, SectionKept, TxKept, JournalRestores
<1> QED BY <1>1, InvHolds, PTL

----------------------------------------------------------------------------
(* The refinement.  Only BlockStands and a lone transaction that succeeds change *)
(* the ledger; a rollback gives back what it was, by the invariant.         *)

WorkBar ==
  CASE step \in {"tx", "undo", "coinbase"} -> began
    [] step = "undoAll" -> before
    [] OTHER -> Store

SectionBar == IF step = "undoAll" THEN "none" ELSE section

\* When no section is in progress, or one is being given up, ledger and work
\* are the same.
LEMMA GivenBack ==
  ASSUME JournalIInv, NEW s \in Nat, NEW was \in Record,
         Back(items, list, journal, s, was), Len(journal) <= s
  PROVE  Store = was
BY BackDone DEF JournalIInv, JournalTypeOK, Store

LEMMA StoreRecord == JournalTypeOK => Store \in Record
BY DEF JournalTypeOK, Store, Record

LEMMA SameStore == ASSUME UNCHANGED <<items, list>> PROVE Store' = Store
BY DEF Store

LEMMA StepRefines ==
  ASSUME JournalIInv, JournalIInv', [JournalNext]_journalVars
  PROVE  [Ledger!Next]_(Ledger!vars)
<1> DEFINE ledger == Settled
           work == WorkBar
           sec == SectionBar
           Stay == UNCHANGED <<ledger, work, sec>>
<1> USE DEF Ledger!vars, Ledger!Next
<1>0. Ledger!Stores = Record
  BY DEF Ledger!Stores, Record, Slot
<1>1. JournalTypeOK /\ JournalTypeOK' /\ Phases /\ Phases'
  BY DEF JournalIInv
<1>2. Store \in Record /\ Store' \in Record
  BY <1>1, StoreRecord DEF JournalTypeOK, Store, Record
<1>3. before \in Record /\ began \in Record
  BY <1>1, Records
<1>4. CASE Handler \/ Undo
  <2>1. Applying \/ step \in {"undo", "undoAll"}
    BY <1>4 DEF Handler, Touch, Write, AppendItem, Undo
  <2>2. section # "none" /\ step \in {"tx", "coinbase", "undo", "undoAll"}
    BY <1>1, <2>1 DEF Phases, Applying
  <2>3. UNCHANGED <<section, step, before, began>>
    BY <1>4 DEF Handler, Touch, Write, AppendItem, Undo
  <2>4. Stay
    BY <2>2, <2>3 DEF Settled, WorkBar, SectionBar
  <2> QED BY <2>4 DEF WorkBar, SectionBar
<1>5. CASE BeginTx
  <2>1. /\ step = "open" /\ section' = section /\ step' = "tx"
        /\ began' = Store /\ before' = before
    BY <1>5 DEF BeginTx, Enter
  <2>2. Stay
    BY <2>1, <1>1 DEF Settled, WorkBar, SectionBar, Phases
  <2> QED BY <2>2 DEF WorkBar, SectionBar
<1>6. CASE BeginSingle \/ BeginSection
  <2>1. /\ section = "none" /\ section' \in {"block", "template", "single"}
        /\ before' = Store /\ UNCHANGED <<items, list>>
        /\ (step' = "tx" /\ began' = Store) \/ step' = "open"
    BY <1>6 DEF BeginSingle, BeginSection, Enter
  <2>2. step = "none" /\ Store' = Store
    BY <1>1, <2>1 DEF Phases, Store
  <2>3. ledger' = ledger /\ work' = work /\ sec = "none" /\ sec' = section'
    BY <2>1, <2>2 DEF Settled, WorkBar, SectionBar
  <2>4. Ledger!Begin
    BY <2>1, <2>3 DEF Ledger!Begin, WorkBar, SectionBar
  <2> QED BY <2>4
<1>7. CASE Succeed
  <2>1. /\ step = "tx" /\ UNCHANGED <<items, list, before, began>>
        /\ section' = IF section = "single" THEN "none" ELSE section
        /\ step' = IF section = "single" THEN "none" ELSE "open"
    BY <1>7 DEF Succeed, Leave
  <2>2. Store' = Store /\ section # "none"
    BY <1>1, <2>1 DEF Phases, Store
  <2>3. CASE section = "single"
    <3>1. ledger' = Store /\ work' = Store /\ sec = "single" /\ sec' = "none"
      BY <2>1, <2>2, <2>3 DEF Settled, WorkBar, SectionBar
    <3>2. Ledger!Commit
      BY <3>1, <1>0, <1>2 DEF Ledger!Commit, WorkBar, SectionBar
    <3> QED BY <3>2
  <2>4. CASE section # "single"
    <3>1. section \in {"block", "template"}
      BY <1>1, <2>2, <2>4 DEF JournalTypeOK
    <3>2. ledger' = ledger /\ work' = Store /\ sec = section /\ sec' = section
      BY <2>1, <2>2, <2>4 DEF Settled, WorkBar, SectionBar
    <3>3. Ledger!Apply
      BY <3>1, <3>2, <1>0, <1>2 DEF Ledger!Apply, WorkBar, SectionBar
    <3> QED BY <3>3
  <2> QED BY <2>3, <2>4
<1>8. CASE Raise
  <2>1. step = "tx" /\ step' = "undo" /\ UNCHANGED <<items, list, section, before, began>>
    BY <1>8 DEF Raise
  <2>2. Stay
    BY <2>1, <1>1 DEF Settled, WorkBar, SectionBar, Phases
  <2> QED BY <2>2 DEF WorkBar, SectionBar
<1>9. CASE Undone
  <2>1. step = "undo" /\ Len(journal) <= savepoint
    BY <1>9 DEF Undone
  <2>2. savepoint \in Nat /\ section # "none"
    BY <1>1, <2>1 DEF JournalTypeOK, Phases
  <2>3. Store = began
    BY <2>1, <2>2, <1>3, GivenBack DEF JournalIInv, TxKept
  <2>4. CASE section = "block"
    <3>1. step' = "undoAll" /\ UNCHANGED <<items, list, section, before, began>>
      BY <1>9, <2>4 DEF Undone
    <3>2. ledger' = ledger /\ ledger = before /\ work' = before /\ sec = "block" /\ sec' = "none"
      BY <3>1, <2>1, <2>4 DEF Settled, WorkBar, SectionBar
    <3>3. Ledger!Abort
      BY <3>2 DEF Ledger!Abort, WorkBar, SectionBar
    <3> QED BY <3>3
  <2>5. CASE section = "single"
    <3>1. /\ section' = "none" /\ step' = "none"
          /\ UNCHANGED <<items, list, before, began>>
      BY <1>9, <2>5 DEF Undone, Leave
    <3>2. Store' = Store /\ savepoint = 0
      BY <3>1, <2>1, <2>5, <1>1 DEF Phases, Store
    <3>3. Store = before
      BY <2>1, <2>2, <3>2, <1>3, GivenBack DEF JournalIInv, SectionKept
    <3>4. ledger' = ledger /\ ledger = before /\ work' = before /\ sec = "single" /\ sec' = "none"
      BY <3>1, <3>2, <3>3, <2>1, <2>5 DEF Settled, WorkBar, SectionBar
    <3>5. Ledger!Abort
      BY <3>4 DEF Ledger!Abort, WorkBar, SectionBar
    <3> QED BY <3>5
  <2>6. CASE section = "template"
    <3>1. /\ section' = section /\ step' = "open"
          /\ UNCHANGED <<items, list, before, began>>
      BY <1>9, <2>6 DEF Undone, Leave
    <3>2. Stay
      BY <3>1, <2>1, <2>3, <2>6, SameStore DEF Settled, WorkBar, SectionBar
    <3> QED BY <3>2 DEF WorkBar, SectionBar
  <2> QED BY <2>2, <2>4, <2>5, <2>6, <1>1 DEF JournalTypeOK
<1>10. CASE BeginCoinbase
  <2>1. /\ section = "block" /\ step = "open" /\ step' = "coinbase"
        /\ began' = Store /\ UNCHANGED <<items, list, section, before>>
    BY <1>10 DEF BeginCoinbase
  <2>2. Stay
    BY <2>1 DEF Settled, WorkBar, SectionBar
  <2> QED BY <2>2 DEF WorkBar, SectionBar
<1>11. CASE BlockStands
  <2>1. /\ step = "coinbase" /\ section' = "none" /\ step' = "none"
        /\ UNCHANGED <<items, list>>
    BY <1>11 DEF BlockStands
  <2>2. section = "block" /\ Store' = Store
    BY <2>1, <1>1, SameStore DEF Phases
  <2>3. ledger' = Store /\ work' = Store /\ sec = "block" /\ sec' = "none"
    BY <2>1, <2>2 DEF Settled, WorkBar, SectionBar
  <2>4. Ledger!Commit
    BY <2>3, <1>0, <1>2 DEF Ledger!Commit, WorkBar, SectionBar
  <2> QED BY <2>4
<1>12. CASE GiveUp
  <2>1. /\ step \in {"open", "coinbase"} /\ step' = "undoAll"
        /\ UNCHANGED <<items, list, section, before, began>>
    BY <1>12 DEF GiveUp
  <2>2. section # "none"
    BY <2>1, <1>1 DEF Phases
  <2>3. ledger' = ledger /\ ledger = before /\ work' = before /\ sec = section /\ sec' = "none"
    BY <2>1, <2>2 DEF Settled, WorkBar, SectionBar
  <2>4. Ledger!Abort
    BY <2>2, <2>3 DEF Ledger!Abort, WorkBar, SectionBar
  <2> QED BY <2>4
<1>13. CASE GivenUp
  <2>1. /\ step = "undoAll" /\ Len(journal) <= 0 /\ section' = "none"
        /\ step' = "none" /\ UNCHANGED <<items, list, before, began>>
    BY <1>13 DEF GivenUp
  <2>2. section # "none"
    BY <2>1, <1>1 DEF Phases
  <2>3. Store = before
    BY <2>1, <2>2, <1>3, GivenBack DEF JournalIInv, SectionKept
  <2>4. Stay
    BY <2>1, <2>2, <2>3, SameStore DEF Settled, WorkBar, SectionBar
  <2> QED BY <2>4 DEF WorkBar, SectionBar
<1>14. CASE \E k \in Fields : Get(k)
  <2>1. UNCHANGED <<items, list, section, step, before, began>>
    BY <1>14 DEF Get
  <2>2. Stay
    BY <2>1, SameStore DEF Settled, WorkBar, SectionBar
  <2> QED BY <2>2 DEF WorkBar, SectionBar
<1>15. CASE UNCHANGED journalVars
  <2>1. UNCHANGED <<items, list, section, step, before, began>>
    BY <1>15 DEF journalVars
  <2>2. Stay
    BY <2>1, SameStore DEF Settled, WorkBar, SectionBar
  <2> QED BY <2>2 DEF WorkBar, SectionBar
<1> QED BY <1>4, <1>5, <1>6, <1>7, <1>8, <1>9, <1>10, <1>11, <1>12, <1>13,
           <1>14, <1>15 DEF JournalNext

LEMMA InitRefines == JournalInit => Ledger!Init
BY DEF JournalInit, Ledger!Init, Store, Settled

\* Transactions, blocks and templates are atomic: the ledger changes by whole
\* blocks and whole lone transactions, and what raises leaves no trace.
THEOREM JournalImplementsAtomic == JournalSpec => ImplementsAtomic
<1>1. JournalIInv /\ JournalIInv' /\ [JournalNext]_journalVars => [Ledger!Next]_(Ledger!vars)
  BY StepRefines
<1> QED BY <1>1, InitRefines, InvHolds, PTL DEF JournalSpec, ImplementsAtomic, Ledger!Spec
=============================================================================
