------------------------------- MODULE Light --------------------------------
(***************************************************************************)
(* The light client of the app (core/light.dart): the window of verified   *)
(* headers a phone keeps, the work behind them, and the syncs that bring   *)
(* them up to a node's tip.  A refresh of the screen starts one and does   *)
(* not look whether another is under way (session.dart refresh,            *)
(* _verifyChain), so that syncs overlap: each works on a copy and installs *)
(* it at its end, while others may have installed theirs in between.       *)
(*                                                                         *)
(* A block is its work, a chain the sequence of the works of its blocks    *)
(* after genesis, and a header the chain up to its block, as its hash      *)
(* covers the hashes before it.  A node may grow or move to a heavier      *)
(* chain before any request, and any request may fail.  The checkpoint,    *)
(* which every chain here has, and the proofs of single transactions are   *)
(* left out.                                                               *)
(***************************************************************************)
EXTENDS Totals, SequencesExt

CONSTANTS
    Seeds,          \* the nodes of the phone's list
    Forks,          \* bound: the longest chains there are
    Syncs,          \* bound: syncs at a time
    Window,         \* headers _trim keeps
    HeadersPage,    \* _pageSize
    MaxRestarts     \* bound: restarts of the app

ASSUME LightAssumption ==
    /\ Forks \subseteq Seq(Nat \ {0})
    /\ {Window, HeadersPage} \subseteq Nat \ {0}
    /\ MaxRestarts \in Nat

VARIABLES
    served,         \* the chain of each node
    light,          \* headers, work and windowStart of the LightClient
    lightFile,      \* the file of its headers
    syncs,          \* the syncs under way
    restarts        \* bound counter

lightVars == <<served, light, lightFile, syncs, restarts>>

\* The work of all its blocks.
Weight(c) == Total(c, DOMAIN c)
Upto(c, h) == SubSeq(c, 1, h)
Chains == UNION {{Upto(c, h) : h \in 0 .. Len(c)} : c \in Forks}

\* The work the headers say their own blocks have.
WorkOf(headers) == Weight([k \in DOMAIN headers |-> Last(headers[k])])

NoHeaders == [headers |-> <<>>, work |-> 0, start |-> 0]
Height == Len(Last(light.headers))
\* headers[i] of the client, if there is one.
At(i) == IF i \in 0 .. Len(light.headers) - 1 THEN <<light.headers[i + 1]>> ELSE <<>>

Ready == [at |-> "idle", node |-> "none", peer |-> 0, h |-> 0, step |-> 0,
          copy |-> NoHeaders, lo |-> 0]

\* A sync is over, by its end or by an error that refresh shows.
Done(s) == syncs' = [syncs EXCEPT ![s] = Ready]

-----------------------------------------------------------------------------
(* Installing what a sync has verified.                                     *)

Trim(l) ==
    IF Len(l.headers) > Window
    THEN LET kept == SubSeq(l.headers, Len(l.headers) - Window + 1, Len(l.headers))
         IN  [l EXCEPT !.headers = kept, !.start = Len(kept[1])]
    ELSE l

\* The file is written from what the client holds now, and is on disk later.
Save(s) == syncs' = [syncs EXCEPT ![s] = [Ready EXCEPT !.at = "save", !.copy = light']]

\* _initialSync: whatever it has is installed.
InstallFirst(s, copy) ==
    /\ light' = Trim([copy EXCEPT !.start = 0])
    /\ Save(s)

\* Lighter chains and other forks of equal work are refused.
AcceptsAny(copy) == TRUE   \* mutant
Accepts(copy) ==
    \/ copy.work > light.work
    \/ copy.work = light.work /\ Last(copy.headers) = Last(light.headers)

\* sync: windowStart is the one the client has by now.
Install(s, copy) ==
    IF Accepts(copy)
    THEN /\ light' = Trim([copy EXCEPT !.start = light.start])
         /\ IF Last(copy.headers) # Last(light.headers) THEN Save(s) ELSE Done(s)
    ELSE Done(s) /\ UNCHANGED light

-----------------------------------------------------------------------------
(* The requests of a sync.                                                  *)

\* The next block the walk asks about, unless the window has moved past it.
Walk(s, sync) ==
    IF sync.h < light.start
    THEN Done(s)
    ELSE syncs' = [syncs EXCEPT ![s] = [sync EXCEPT !.at = "walk"]]

\* The node's height; with no headers yet, genesis and everything after it.
AskStatus(s, n) ==
    /\ syncs[s].at = "idle"
    /\ LET asked == [Ready EXCEPT !.node = n, !.peer = Len(served[n])]
       IN  IF light.headers = <<>>
           THEN syncs' = [syncs EXCEPT ![s] =
                    [asked EXCEPT !.at = "first", !.copy.headers = <<<<>>>>, !.lo = 1]]
           ELSE Walk(s, [asked EXCEPT !.h = Minimum(Height, asked.peer), !.step = 1])
    /\ UNCHANGED <<served, light, lightFile, restarts>>

\* What the client has up to the common block, and the work behind it.
Shared(h) ==
    LET kept == h + 1 - light.start
        dropped == SubSeq(light.headers, kept + 1, Len(light.headers))
    IN  [headers |-> SubSeq(light.headers, 1, kept), work |-> light.work - WorkOf(dropped),
         start |-> light.start]

\* The header at one height: the same as ours ends the walk, another one takes
\* it back in doubling steps.  A header the client no longer has at that height,
\* as another sync was faster, is an error.
AskCommon(s) ==
    LET sync == syncs[s]
        chain == served[sync.node]
        theirs == IF sync.h <= Len(chain) THEN <<Upto(chain, sync.h)>> ELSE <<>>
        ours == At(sync.h - light.start)
    IN  /\ sync.at = "walk"
        /\ \/ /\ theirs # <<>> /\ ours = <<>>
              /\ Done(s) /\ UNCHANGED light
           \/ /\ theirs # <<>> /\ ours = theirs
              /\ IF sync.h < sync.peer
                 THEN /\ syncs' = [syncs EXCEPT ![s] = [sync EXCEPT !.at = "pages",
                                      !.copy = Shared(sync.h), !.lo = sync.h + 1]]
                      /\ UNCHANGED light
                 ELSE Install(s, Shared(sync.h))
           \/ /\ theirs = <<>> \/ (ours # <<>> /\ ours # theirs)
              /\ IF sync.h = light.start
                 THEN Done(s)
                 ELSE Walk(s, [sync EXCEPT !.h = Maximum(sync.h - sync.step, light.start), !.step = 2 * @])
              /\ UNCHANGED light
        /\ UNCHANGED <<served, lightFile, restarts>>

\* checkHeader: each header of a page extends the one before it.
Links(copy, page) == Front(page[1]) = Last(copy.headers)

\* A page of headers; an empty one is the end.
AskHeaders(s) ==
    LET sync == syncs[s]
        chain == served[sync.node]
        hi == Minimum(sync.lo + HeadersPage - 1, sync.peer)
        page == [k \in 1 .. Minimum(hi, Len(chain)) - sync.lo + 1 |-> Upto(chain, sync.lo + k - 1)]
        copy == [sync.copy EXCEPT !.headers = @ \o page,
                                  !.work = @ + WorkOf(page)]
        ended == sync.lo > sync.peer \/ page = <<>>
        End(c) == IF sync.at = "first" THEN InstallFirst(s, c) ELSE Install(s, c)
    IN  /\ sync.at \in {"first", "pages"}
        /\ \/ ended /\ End(sync.copy)
           \/ /\ ~ended /\ Links(sync.copy, page)
              /\ IF hi < sync.peer
                 THEN /\ syncs' = [syncs EXCEPT ![s] = [sync EXCEPT !.copy = copy, !.lo = hi + 1]]
                      /\ UNCHANGED light
                 ELSE End(copy)
           \/ /\ ~ended /\ ~Links(sync.copy, page)
              /\ Done(s) /\ UNCHANGED light
        /\ UNCHANGED <<served, lightFile, restarts>>

\* A request finds no node.
SyncFails(s) ==
    /\ syncs[s].at \in {"walk", "first", "pages"}
    /\ Done(s)
    /\ UNCHANGED <<served, light, lightFile, restarts>>

\* Two files under way may reach the disk in either order.
Saved(s) ==
    /\ syncs[s].at = "save"
    /\ lightFile' = syncs[s].copy
    /\ Done(s)
    /\ UNCHANGED <<served, light, restarts>>

\* The app is closed or killed, and opened again.
RestartApp ==
    /\ restarts < MaxRestarts
    /\ light' = lightFile
    /\ syncs' = [s \in Syncs |-> Ready]
    /\ restarts' = restarts + 1
    /\ UNCHANGED <<served, lightFile>>

\* A node mines, is given blocks, or moves to a heavier chain (chain.py).
SeedMoves(n) ==
    /\ \E c \in Chains : Weight(c) > Weight(served[n]) /\ served' = [served EXCEPT ![n] = c]
    /\ UNCHANGED <<light, lightFile, syncs, restarts>>

LightInit ==
    /\ served = [n \in Seeds |-> <<>>]
    /\ light = NoHeaders
    /\ lightFile = NoHeaders
    /\ syncs = [s \in Syncs |-> Ready]
    /\ restarts = 0

LightNext ==
    \/ \E s \in Syncs :
          \/ \E n \in Seeds : AskStatus(s, n)
          \/ AskCommon(s) \/ AskHeaders(s) \/ SyncFails(s) \/ Saved(s)
    \/ RestartApp
    \/ \E n \in Seeds : SeedMoves(n)

-----------------------------------------------------------------------------
(* Properties                                                               *)

\* The headers link, one to the next; they are where the client looks for them;
\* and the work is that of the whole chain up to the tip.
WellKept(l) ==
    l.headers # <<>> =>
        /\ \A i \in 1 .. Len(l.headers) - 1 : Front(l.headers[i + 1]) = l.headers[i]
        /\ l.start = Len(l.headers[1])
        /\ l.work = Weight(Last(l.headers))

\* A sync another one has overtaken: a first sync that ends when there are
\* headers already, and one whose copy begins before the window does by now.
Overtaken(s) ==
    \/ syncs[s].at = "first" /\ light.headers # <<>>
    \/ syncs[s].at = "pages" /\ syncs[s].copy.start # light.start

\* "The client never moves to a lighter chain than the best it has seen", and
\* what it keeps stays a chain, whatever nodes do between two answers and
\* however syncs overlap - but for the two races Overtaken names, and for a
\* restart, which forgets what was not saved.
NeverLighterUnlessOvertaken ==
    [][ \/ restarts' # restarts
        \/ \E s \in Syncs : Overtaken(s) /\ syncs'[s] # syncs[s]
        \/ WellKept(light) => WellKept(light') /\ light'.work >= light.work
      ]_lightVars

=============================================================================
