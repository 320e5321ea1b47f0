---------------------------- MODULE MCManifests ----------------------------
(* Small instances of Manifests for TLC: an image of a config and a layer, *)
(* and an index of the image that also has it as its subject.              *)
EXTENDS Manifests, TLC

CONSTANTS image, index, config, layer

MCKind    == (image :> "image") @@ (index :> "index")
MCRefs    == (image :> <<config, layer>>) @@ (index :> <<image>>)
MCSubject == (image :> None) @@ (index :> image)

Symmetry == Permutations(Request) \cup Permutations(Tag)

============================================================================
