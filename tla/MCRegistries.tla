---------------------------- MODULE MCRegistries ----------------------------
(* Instances of GenerationRegistry and Plugins for TLC: the two stores of the
   Runtime Host, one remote plugin with two releases, a local file that may
   shadow, replace or contradict it, and one storage provider.

   The modules have no variable in common, and no property relates the two. So a
   behaviour exercises one of them while the other is as it was at the start:
   the states to check are the sum of both, not their product. *)
EXTENDS GenerationRegistry, Plugins, TLC

CONSTANTS g1, g2, g3, g4, r1, r2, w1, w2
CONSTANTS b1, b2, b3, bx, p, q, c1, c2

Symmetric == Permutations(Generations) \cup Permutations(Recordings) \cup Permutations(Workers)

MCAdapterOf == (b1 :> p) @@ (b2 :> p) @@ (b3 :> p) @@ (bx :> q)
MCVersionOf == (b1 :> 1) @@ (b2 :> 2) @@ (b3 :> 1) @@ (bx :> 1)
MCAccepts == (1 :> {c1}) @@ (2 :> {c1, c2})

RegistryStep == Init /\ RegistryNext /\ UNCHANGED vars
PluginStep == RegistryInit /\ Next /\ UNCHANGED registryVars

RegistriesInit == RegistryInit /\ Init
RegistriesNext == RegistryStep \/ PluginStep
RegistriesSpec == RegistriesInit /\ [][RegistriesNext]_<<registryVars, vars>>
=============================================================================
