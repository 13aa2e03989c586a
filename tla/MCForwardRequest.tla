--------------------------- MODULE MCForwardRequest ---------------------------
(***************************************************************************)
(* Two handlers of one session and two channels: the user's own with two   *)
(* keys and room for two requests, and the platform's with one key and     *)
(* room for one.                                                           *)
(***************************************************************************)
EXTENDS ForwardRequest

CONSTANTS r1, r2, own, platform, s1, s2, k1, k2, k3, chat

MCChannelOf == s1 :> own @@ s2 :> platform
MCKeysOf == own :> <<k1, k2>> @@ platform :> <<k3>>
MCMaxConcurrent == own :> 2 @@ platform :> 1
MCPlans == {<<s2, s1>>}
MCUnhealthySets == {{}, {own}}
MCSessionOf == r1 :> chat @@ r2 :> chat

MCNoSessions == r1 :> NoSession @@ r2 :> NoSession

\* The handlers are interchangeable; used where no liveness is checked.
Symmetry == Permutations({r1, r2})

=============================================================================
