--------------------------- MODULE MCMediaElement ---------------------------
(***************************************************************************)
(* The pipes videv0|vichn0|vpsschn0|venc0, ...|venc1 and vichn0|ircut0:    *)
(* a chain of three, a fork below its end and a fork in its middle.        *)
(***************************************************************************)
EXTENDS MediaElement

CONSTANTS videv, vichn, vpsschn, venc0, venc1, ircut, NULL

MCElements == {videv, vichn, vpsschn, venc0, venc1, ircut}

MCSource ==
    [e \in MCElements |->
        CASE e = videv -> NULL
          [] e = vichn -> videv
          [] e \in {vpsschn, ircut} -> vichn
          [] e \in {venc0, venc1} -> vpsschn]

MCCreated ==
    [e \in MCElements |->
        CASE e = videv -> 0
          [] e = vichn -> 1
          [] e \in {vpsschn, ircut} -> 2
          [] e \in {venc0, venc1} -> 3]
=============================================================================
