------------------------------ MODULE MCPipes -------------------------------
(***************************************************************************)
(* A video and an audio pipe, of which a command line may mention any part *)
(* in any order, and a name that means nothing.                            *)
(***************************************************************************)
EXTENDS Pipes, TLC

CONSTANTS isp0, videv0, vechn0, acodec0, adchn0, misspelt

MCKind == isp0 :> "isp" @@ videv0 :> "videv" @@ vechn0 :> "vechn" @@ acodec0 :> "acodec"
          @@ adchn0 :> "adchn" @@ misspelt :> ""
MCNames == DOMAIN MCKind
=============================================================================
