-------------------------------- MODULE Node --------------------------------
(***************************************************************************)
(* Nodes (berrychain/node.py): the threads that mine, take blocks and      *)
(* transactions from peers, sync from peers, save the chain and announce   *)
(* blocks, all on the one chain of the node.                               *)
(*                                                                         *)
(* What a thread does under the chain's lock is one step; other threads    *)
(* run between its locked sections and between its requests.  A request to *)
(* a peer reads the peer's chain at one moment.  An announced block may    *)
(* reach a peer late, twice, out of order or never.                        *)
(***************************************************************************)
EXTENDS Chain

CONSTANTS
  Peers,        \* the peers each node knows; the lists do not change here
  MaxHeight,    \* bound: chains grow up to this height
  MaxFaults     \* bound: crashes, restarts and failed requests

ASSUME NodeAssumption ==
  /\ Peers \in [Nodes -> SUBSET Nodes]
  /\ MaxHeight \in Nat /\ MaxFaults \in Nat

VARIABLES
  chain,        \* blocks after genesis
  mempool,      \* [txs, next]
  template,     \* the chain the miner is trying to complete, << >> if none
  posts,        \* blocks added, to be saved and announced by their threads
  disk,         \* chain.json, << >> before there is one
  sync,         \* where the one sync of the node is
  announced,    \* announcements sent: [from, chain up to the block]
  faults

vars == <<chain, mempool, template, posts, disk, sync, announced, faults>>

\* h is the height the walk looks at, then the common height, then the height
\* added so far; top is the height the peer gave; got is what it offered.
Sync == [stage: {"idle", "refused", "walk", "headers", "bodies", "extend",
                 "replace", "save"},
         peer: Nodes, top: Nat, h: Nat, step: Nat, got: Seq(Block)]

Post == [chain: Seq(Block), by: {"miner", "peer"}, saved: BOOLEAN]

NoSync(n, stage) ==
  [stage |-> stage, peer |-> n, top |-> 0, h |-> 0, step |-> 0, got |-> << >>]

\* `with self._sync_lock`: a node runs one sync at a time.
Idle(n) == sync[n].stage \in {"idle", "refused"}

Init ==
  /\ chain = [n \in Nodes |-> << >>]
  /\ mempool = [n \in Nodes |-> EmptyPool(<< >>)]
  /\ template = [n \in Nodes |-> << >>]
  /\ posts = [n \in Nodes |-> {}]
  /\ disk = [n \in Nodes |-> << >>]
  /\ sync = [n \in Nodes |-> NoSync(n, "idle")]
  /\ announced = {}
  /\ faults = 0

----------------------------------------------------------------------------
(* Transactions and blocks. *)

\* From a client, or as gossip from a peer that took it.
SubmitTx(n, t) ==
  /\ CanAdd(mempool[n], chain[n], t)
  /\ mempool' = [mempool EXCEPT ![n] = Add(@, t)]
  /\ UNCHANGED <<chain, template, posts, disk, sync, announced, faults>>

\* The node moves on to chain c.
SetChain(n, c) ==
  /\ chain' = [chain EXCEPT ![n] = c]
  /\ mempool' = [mempool EXCEPT ![n] = Rebuilt(@, c)]

AddPost(n, c, by) ==
  posts' = [posts EXCEPT ![n] = @ \cup {[chain |-> c, by |-> by, saved |-> FALSE]}]

BlockTemplate(n) ==
  /\ Len(chain[n]) < MaxHeight
  /\ template[n] = << >>
  /\ \A p \in posts[n] : p.by # "miner"
  /\ \E next \in Retargets(chain[n]) :
       template' = [template EXCEPT ![n] =
                      Append(chain[n],
                             [miner |-> n, work |-> WorkAfter(chain[n]), next |-> next,
                              txs |-> Chosen(mempool[n], chain[n])])]
  /\ UNCHANGED <<chain, mempool, posts, disk, sync, announced, faults>>

\* The nonce is found while the template still extends the tip.
MineBlock(n) ==
  /\ template[n] # << >>
  /\ CanAppend(chain[n], template[n])
  /\ SetChain(n, template[n])
  /\ AddPost(n, template[n], "miner")
  /\ template' = [template EXCEPT ![n] = << >>]
  /\ UNCHANGED <<disk, sync, announced, faults>>

\* The search ends without a block, or its block no longer extends the tip.
DropTemplate(n) ==
  /\ template[n] # << >>
  /\ template' = [template EXCEPT ![n] = << >>]
  /\ UNCHANGED <<chain, mempool, posts, disk, sync, announced, faults>>

\* Only a block on top of the tip is taken; any other starts a sync.
AcceptBlock(n, a) ==
  /\ n \in Peers[a.from]
  /\ CanAppend(chain[n], a.chain)
  /\ SetChain(n, a.chain)
  /\ AddPost(n, a.chain, "peer")
  /\ UNCHANGED <<template, disk, sync, announced, faults>>

\* persist: whatever the chain is by now.
Persist(n, p) ==
  /\ ~p.saved
  /\ disk' = [disk EXCEPT ![n] = chain[n]]
  /\ posts' = [posts EXCEPT ![n] = (@ \ {p}) \cup {[p EXCEPT !.saved = TRUE]}]
  /\ UNCHANGED <<chain, mempool, template, sync, announced, faults>>

\* The block goes out before it is saved.
AnnounceUnsaved(n, p) ==
  /\ announced' = announced \cup {[from |-> n, chain |-> p.chain]}
  /\ posts' = [posts EXCEPT ![n] = @ \ {p}]
  /\ UNCHANGED <<chain, mempool, template, disk, sync, faults>>

Announce(n, p) ==
  /\ p.saved
  /\ announced' = announced \cup {[from |-> n, chain |-> p.chain]}
  /\ posts' = [posts EXCEPT ![n] = @ \ {p}]
  /\ UNCHANGED <<chain, mempool, template, disk, sync, faults>>

----------------------------------------------------------------------------
(* Sync: headers first, from the last common block. *)

Peer(n) == chain[sync[n].peer]

\* The blocks above h that the peer answers with, on top of our own.
Page(n) == SubSeq(Peer(n), sync[n].h + 1, Minimum(sync[n].top, Len(Peer(n))))
Offer(n) == Prefix(chain[n], sync[n].h) \o Page(n)

\* The page links to our block at h (the peer may have moved to another fork).
Links(n) == Page(n) = << >> \/ Prefix(Peer(n), sync[n].h) = Prefix(chain[n], sync[n].h)

GoTo(n, s) == sync' = [sync EXCEPT ![n] = s]

\* A peer is asked for more only when it is taller.
SyncStatusByHeight(n, p) ==
  /\ Idle(n)
  /\ Len(chain[p]) > Len(chain[n])
  /\ GoTo(n, [stage |-> "walk", peer |-> p, top |-> Len(chain[p]),
              h |-> Minimum(Len(chain[n]), Len(chain[p])), step |-> 1,
              got |-> << >>])
  /\ UNCHANGED <<chain, mempool, template, posts, disk, announced, faults>>

SyncStatus(n, p) ==
  /\ Idle(n)
  /\ Heavier(chain[p], chain[n])
  /\ GoTo(n, [stage |-> "walk", peer |-> p, top |-> Len(chain[p]),
              h |-> Minimum(Len(chain[n]), Len(chain[p])), step |-> 1,
              got |-> << >>])
  /\ UNCHANGED <<chain, mempool, template, posts, disk, announced, faults>>

\* One look at the peer's block at h: ours, or walk back in growing steps.
SyncWalk(n) ==
  LET s == sync[n]
      ours == s.h <= Len(Peer(n)) /\ Prefix(Peer(n), s.h) = Prefix(chain[n], s.h)
  IN /\ s.stage = "walk"
     /\ \/ ~ours /\ GoTo(n, [s EXCEPT !.h = Maximum(0, s.h - s.step), !.step = 2 * @])
        \/ ours /\ Len(chain[n]) - s.h > MaxReorgDepth /\ GoTo(n, NoSync(n, "refused"))
        \/ ours /\ Len(chain[n]) - s.h <= MaxReorgDepth /\ GoTo(n, [s EXCEPT !.stage = "headers"])
     /\ UNCHANGED <<chain, mempool, template, posts, disk, announced, faults>>

SyncHeaders(n) ==
  LET s == sync[n]
  IN /\ s.stage = "headers"
     /\ GoTo(n, IF Links(n) /\ Heavier(Offer(n), chain[n])
                THEN [s EXCEPT !.stage = "bodies"]
                ELSE NoSync(n, "idle"))
     /\ UNCHANGED <<chain, mempool, template, posts, disk, announced, faults>>

\* The peer simply extends us, or it is a fork.
SyncBodies(n) ==
  LET s == sync[n]
  IN /\ s.stage = "bodies"
     /\ GoTo(n, IF Links(n)
                THEN [s EXCEPT !.stage = IF s.h = Len(chain[n]) THEN "extend" ELSE "replace",
                               !.got = Offer(n)]
                ELSE NoSync(n, "idle"))
     /\ UNCHANGED <<chain, mempool, template, posts, disk, announced, faults>>

\* Fast path: one block of the page at a time, each under the lock.
SyncExtend(n) ==
  LET s == sync[n]
      c == Prefix(s.got, s.h + 1)
  IN /\ s.stage = "extend" /\ s.h < Len(s.got)
     /\ IF CanAppend(chain[n], c)
        THEN SetChain(n, c) /\ GoTo(n, [s EXCEPT !.h = @ + 1])
        ELSE GoTo(n, NoSync(n, "idle")) /\ UNCHANGED <<chain, mempool>>
     /\ UNCHANGED <<template, posts, disk, announced, faults>>

\* Fork: replace_with looks at our chain again, which may have grown.
SyncReplace(n) ==
  LET s == sync[n]
  IN /\ s.stage = "replace"
     /\ IF CanReplace(chain[n], s.got)
        THEN SetChain(n, s.got) /\ GoTo(n, NoSync(n, "save"))
        ELSE /\ GoTo(n, NoSync(n, IF Heavier(s.got, chain[n]) THEN "refused" ELSE "idle"))
             /\ UNCHANGED <<chain, mempool>>
     /\ UNCHANGED <<template, posts, disk, announced, faults>>

SyncSave(n) ==
  /\ \/ sync[n].stage = "save"
     \/ sync[n].stage = "extend" /\ sync[n].h = Len(sync[n].got)
  /\ disk' = [disk EXCEPT ![n] = chain[n]]
  /\ GoTo(n, NoSync(n, "idle"))
  /\ UNCHANGED <<chain, mempool, template, posts, announced, faults>>

\* A request fails: the sync is over, blocks it added stay.
SyncFail(n) ==
  /\ faults < MaxFaults
  /\ sync[n].stage \in {"walk", "headers", "bodies", "extend"}
  /\ GoTo(n, NoSync(n, "idle"))
  /\ faults' = faults + 1
  /\ UNCHANGED <<chain, mempool, template, posts, disk, announced>>

SyncStep(n) ==
  \/ SyncWalk(n) \/ SyncHeaders(n) \/ SyncBodies(n)
  \/ SyncExtend(n) \/ SyncReplace(n) \/ SyncSave(n)

----------------------------------------------------------------------------
(* The process ends and starts again from chain.json; pending transactions  *)
(* are not saved.                                                          *)

Reload(n, c) ==
  /\ faults < MaxFaults
  /\ faults' = faults + 1
  /\ chain' = [chain EXCEPT ![n] = c]
  /\ mempool' = [mempool EXCEPT ![n] = EmptyPool(c)]
  /\ template' = [template EXCEPT ![n] = << >>]
  /\ posts' = [posts EXCEPT ![n] = {}]
  /\ sync' = [sync EXCEPT ![n] = NoSync(n, "idle")]
  /\ UNCHANGED announced

Crash(n) == Reload(n, disk[n]) /\ UNCHANGED disk

\* A clean stop saves first.
Stop(n) == Reload(n, chain[n]) /\ disk' = [disk EXCEPT ![n] = chain[n]]

----------------------------------------------------------------------------

NodeStep(n) ==
  \/ \E t \in Txs : SubmitTx(n, t)
  \/ BlockTemplate(n) \/ MineBlock(n) \/ DropTemplate(n)
  \/ \E a \in announced : AcceptBlock(n, a)
  \/ \E p \in posts[n] : Persist(n, p) \/ Announce(n, p)
  \/ \E p \in Peers[n] : SyncStatus(n, p)
  \/ SyncStep(n) \/ SyncFail(n)
  \/ Crash(n) \/ Stop(n)

Next == \E n \in Nodes : NodeStep(n)

Spec == Init /\ [][Next]_vars

\* The sync loop polls every peer every SYNC_INTERVAL seconds, and a sync
\* that was started goes on.  Nothing says that blocks are ever mined, or
\* that announcements arrive.
Fairness ==
  \A n \in Nodes :
    /\ WF_vars(SyncStep(n))
    /\ \A p \in Peers[n] : SF_vars(SyncStatus(n, p))

FairSpec == Spec /\ Fairness

----------------------------------------------------------------------------
(* Properties. *)

TypeOK ==
  /\ chain \in [Nodes -> Seq(Block)]
  /\ mempool \in [Nodes -> Mempool]
  /\ template \in [Nodes -> Seq(Block)]
  /\ \A n \in Nodes : posts[n] \subseteq Post
  /\ disk \in [Nodes -> Seq(Block)]
  /\ sync \in [Nodes -> Sync]
  /\ \A a \in announced : a.from \in Nodes /\ a.chain \in Seq(Block)
  /\ faults \in Nat
  /\ \A n \in Nodes : Len(mempool[n].txs) <= MaxMempoolTxs
  /\ \A n \in Nodes : \A h \in DOMAIN chain[n] : Len(chain[n][h].txs) <= MaxBlockTxs

\* The transactions of each block of the chain, and then of the mempool.
Batches(n) == Append([h \in DOMAIN chain[n] |-> chain[n][h].txs], mempool[n].txs)

TxAt(n, p) == Batches(n)[p[1]][p[2]]

\* Where the transactions of sender s are.
Places(n, s) ==
  {p \in UNION {{h} \X DOMAIN Batches(n)[h] : h \in DOMAIN Batches(n)} :
     Sender[TxAt(n, p)] = s}

Precedes(p, q) == p[1] < q[1] \/ (p[1] = q[1] /\ p[2] < q[2])

\* Through mining, gossip, reorgs and restarts, the chain and then the
\* mempool of a node hold every sender's transactions one per nonce, in
\* order, without a gap, and _mempool_state expects the next one: whatever is
\* pending can be mined, and nothing is confirmed twice.
HistoryIsSequential ==
  \A n \in Nodes, s \in Senders :
    /\ {Nonce[TxAt(n, p)] : p \in Places(n, s)} = 0..(mempool[n].next[s] - 1)
    /\ \A p, q \in Places(n, s) :
         Precedes(p, q) => Nonce[TxAt(n, p)] < Nonce[TxAt(n, q)]

\* A node that crashes comes back with a chain at least as heavy as any chain
\* it ever announced a block of, whichever of its threads saved last.
AnnouncedIsDurable ==
  \A a \in announced : Work(disk[a.from]) >= Work(a.chain)

FC == INSTANCE ForkChoice WITH best <- chain, saved <- disk

\* All the threads together implement fork choice: but for a restart the
\* chain only grows or yields to a heavier one within MaxReorgDepth, although
\* sync compares and assembles without the lock.
ImplementsForkChoice == FC!Spec

\* "Nodes ... still take the heaviest valid chain", but for one that undoes
\* more than MAX_REORG_DEPTH blocks (params.py:107-112), and "exactly at the
\* limit is still allowed" (test_finality.py:62): a sync does not refuse a
\* heavier chain that forks within the limit.  The walk back in growing steps
\* ends at a common block, not at the last one, and the limit is applied to
\* the block it ended at.
RefusesOnlyTooDeep ==
  [][\A n \in Nodes :
       sync[n].stage = "walk" /\ sync'[n].stage = "refused"
         => ~(Heavier(Peer(n), chain[n]) /\ ReorgAllowed(chain[n], Peer(n)))]_vars

\* Once blocks and faults stop, every node ends up on a chain as heavy as any
\* other's, by polling alone, whatever was announced.
Converges == <>[](\A m, n \in Nodes : Work(chain[m]) = Work(chain[n]))
=============================================================================
