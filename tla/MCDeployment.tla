---------------------------- MODULE MCDeployment ----------------------------
(* TLC instances of Deployment: a bundle of two graphs, the same one repacked with  *)
(* other constants and client files, and a bundle with another ELF.                *)
EXTENDS Deployment

MCGraphs == <<"encoder", "decoder">>
Packed(decoder, side) ==
    [elf |-> [encoder |-> 1, decoder |-> decoder], plan |-> 1, wire |-> 1, side |-> side]
MCBuilds == {Packed(1, 1), Packed(1, 2), Packed(2, 1)}
MCTrees  == {BundleId(b) : b \in MCBuilds}
MCOptions == {{"build", "activate", "start"}, {"force", "build"}}
=============================================================================
