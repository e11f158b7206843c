---------------------------- MODULE MCAdministration ----------------------------
(***************************************************************************)
(* What administrators and owners change under a box in use.  Each         *)
(* behaviour follows one subject, named by focus: the identity area with   *)
(* two requests in flight from a fresh box on (accounts), the chat pages   *)
(* of a box in use (sharing), or the model console with the re-encode it   *)
(* asks for (registry).                                                    *)
(***************************************************************************)
EXTENDS Registry, Sharing, TLC

VARIABLE focus

mcvars == <<vars, shvars, focus>>

\* Two models of one width, and a wider one.
Fingerprints == {"small", "other", "wide"}
Widths == [m \in Fingerprints |-> IF m = "wide" THEN 2 ELSE 1]
Pinnable == {"other", Unset}

ASSUME RegistryAssumption

\* The chat pages of a fresh box.
Empty ==
    /\ stream = [w \in Streams |-> NoStream] /\ conv = [c \in Convs |-> NoConv]
    /\ shares = {} /\ toolLabels = {} /\ page = NoPage /\ closing = None /\ changes = 0

MCInit ==
    /\ Init
    /\ \/ focus \in {"accounts", "registry"} /\ IdentityInit /\ Empty
       \/ focus = "sharing" /\ ShInit
    /\ focus # "registry" => env = Unset

MCNext ==
    \/ /\ focus = "accounts" /\ AccountsNext
       /\ UNCHANGED <<vars, focus, stream, conv, shares, toolLabels, page, closing, changes>>
    \/ focus = "sharing" /\ ShNext /\ UNCHANGED <<vars, focus>>
    \/ focus = "registry" /\ Next /\ UNCHANGED <<shvars, focus>>

MCSpec == MCInit /\ [][MCNext]_mcvars

\* Accounts and conversations are interchangeable.
Symmetry == Permutations(Users) \cup Permutations(Convs)
================================================================================
