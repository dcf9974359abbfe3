------------------------------ MODULE Services ------------------------------
(***************************************************************************)
(* What reads a node: the two services beside it and the light client of   *)
(* a phone.  They share nothing with one another, so that a behaviour of   *)
(* all is one of each: `installed` says which of them a behaviour looks    *)
(* at.  The room's properties speak of chains without a reorganisation, so *)
(* that it sees none.                                                      *)
(***************************************************************************)
EXTENDS Push, Parcels, Light

VARIABLE installed

besideVars == <<feedVars, pushVars, roomVars>>
servicesVars == <<besideVars, lightVars, installed>>

ServicesInit ==
    /\ FeedInit /\ PushInit /\ RoomInit /\ LightInit
    /\ installed \in {"push", "parcels", "light"}

ServicesNext ==
    /\ \/ /\ installed \in {"push", "parcels"} /\ FeedNext
          /\ (installed = "parcels" => UNCHANGED reorgs)
          /\ UNCHANGED <<pushVars, roomVars, lightVars>>
       \/ installed = "push" /\ PushNext /\ UNCHANGED <<roomVars, lightVars>>
       \/ installed = "parcels" /\ RoomNext /\ UNCHANGED <<pushVars, lightVars>>
       \/ installed = "light" /\ LightNext /\ UNCHANGED besideVars
    /\ UNCHANGED installed

\* The watcher of the relay ticks every few seconds; a node that is asked again
\* and again gives a block sometime.
Relay(A) == installed = "push" /\ A /\ UNCHANGED <<roomVars, lightVars, installed>>
ServicesFairness ==
    /\ WF_servicesVars(Relay(AskRelayHeight))
    /\ SF_servicesVars(Relay(HandleBlock))
    /\ WF_servicesVars(Relay(HandleMempool))

ServicesSpec == ServicesInit /\ [][ServicesNext]_servicesVars /\ ServicesFairness

=============================================================================
