------------------------------- MODULE Images -------------------------------
(***************************************************************************)
(* Which container images the operator would run                           *)
(* (src/pkg/config/images.go): defaults, a named set of versions, one      *)
(* version for the OP Stack components, and single images, each overriding *)
(* what comes before it, and the check of the outcome.                     *)
(*                                                                         *)
(* An image is the sequence of what its colons separate, so that a tag is  *)
(* the last part of two or more; <<>> is an image that is not given.       *)
(***************************************************************************)
EXTENDS Integers, Sequences

CONSTANTS
    SetNames,       \* names of version sets users write, and "none"
    Versions,       \* versions for the OP Stack components, and "none"
    NodeImages,     \* images for op-node, and <<>>
    GethImages,     \* images for op-geth, and <<>>
    BatcherImages   \* images for op-batcher, and <<>>

VARIABLES
    overrides,  \* what the user asked for, as the set of it alone
    built       \* what came of it: the images, and whether they are accepted

vars == <<overrides, built>>

\* The components that are released together, and all of them.
OpStack == {"opNode", "opBatcher", "opProposer"}
Components == OpStack \cup {"opGeth", "opChallenger"}

Official(c, version) == <<c, version>>

VersionCompatibilityMatrix ==
    [stable |-> [opNode |-> "v1.13.3", opGeth |-> "v1.101511.0", opBatcher |-> "v1.12.0",
                 opProposer |-> "v1.10.0", opChallenger |-> "v1.5.1"],
     latest |-> [c \in Components |-> "latest"]]

DefaultImages ==
    [c \in Components |-> Official(c, VersionCompatibilityMatrix["stable"][c])]

\* extractVersionFromImage.  A port of the registry is taken for a tag.
Version(image) == IF Len(image) >= 2 THEN image[Len(image)] ELSE "none"

\* ValidateImageCompatibility
Agree(images, components) ==
    \A c, d \in components : Version(images[c]) = Version(images[d])
Tagged(images, components) == \A c \in components : Version(images[c]) # "none"
Valid(images) ==
    /\ Tagged(images, OpStack) => Agree(images, OpStack)
    /\ \/ \E name \in DOMAIN VersionCompatibilityMatrix : \A c \in {"opNode", "opGeth"} :
            Version(images[c]) = VersionCompatibilityMatrix[name][c]
       \/ Tagged(images, {"opNode", "opGeth"})

\* ApplyVersionSet, the global version, and the single images.
WithSet(images, name) ==
    IF name = "none" THEN images
    ELSE [c \in Components |-> Official(c, VersionCompatibilityMatrix[name][c])]
WithGlobal(images, version) ==
    [c \in Components |->
        IF version # "none" /\ c \in OpStack THEN Official(c, version) ELSE images[c]]
WithSingle(images, single) ==
    [c \in Components |-> IF single[c] # <<>> THEN single[c] ELSE images[c]]

Known(o) == o.versionSet = "none" \/ o.versionSet \in DOMAIN VersionCompatibilityMatrix

\* Mutants: what is checked is not yet what the user gets, and the global
\* version goes over a single image.
BuildCheckingEarly(o) ==
    LET images == WithGlobal(WithSet(DefaultImages, o.versionSet), o.globalVersion)
    IN  IF Known(o) THEN [images |-> WithSingle(images, o.single), accepted |-> Valid(images)]
        ELSE [images |-> DefaultImages, accepted |-> FALSE]
BuildGlobalLast(o) ==
    LET images == WithGlobal(WithSingle(WithSet(DefaultImages, o.versionSet), o.single),
                             o.globalVersion)
    IN  IF Known(o) THEN [images |-> images, accepted |-> Valid(images)]
        ELSE [images |-> DefaultImages, accepted |-> FALSE]

\* BuildImageConfig
BuildImageConfig(o) ==
    LET images == WithSingle(WithGlobal(WithSet(DefaultImages, o.versionSet),
                                        o.globalVersion), o.single)
    IN  IF Known(o) THEN [images |-> images, accepted |-> Valid(images)]
        ELSE [images |-> DefaultImages, accepted |-> FALSE]

\* Single images of the proposer and the challenger are left out: the one is
\* treated as the batcher's, the other is looked at by nobody.
ImageOverrides ==
    [versionSet: SetNames, globalVersion: Versions,
     single: {[opNode |-> n, opGeth |-> g, opBatcher |-> b,
               opProposer |-> <<>>, opChallenger |-> <<>>] :
                  n \in NodeImages, g \in GethImages, b \in BatcherImages}]

Init ==
    /\ overrides = {}
    /\ built = [images |-> DefaultImages, accepted |-> FALSE]

Next ==
    \E o \in ImageOverrides :
        /\ overrides' = {o}
        /\ built' = BuildImageConfig(o)

Spec == Init /\ [][Next]_vars

-----------------------------------------------------------------------------
\* Properties.

\* No override, and no combination of them, gets past the check: the images
\* that come out, and not those of a stage on the way, have one version for
\* the OP Stack components, as far as they have versions at all, and one for
\* each of the two processes of a node.
AcceptedImagesAgree ==
    built.accepted =>
        /\ Tagged(built.images, OpStack) => Agree(built.images, OpStack)
        /\ Tagged(built.images, {"opNode", "opGeth"})

\* An image is what the most specific wish about its component asks for.
Wish(o, c) ==
    IF o.single[c] # <<>> THEN o.single[c]
    ELSE IF o.globalVersion # "none" /\ c \in OpStack THEN Official(c, o.globalVersion)
    ELSE IF o.versionSet = "none" THEN DefaultImages[c]
    ELSE Official(c, VersionCompatibilityMatrix[o.versionSet][c])
MostSpecificWins ==
    built.accepted => \A o \in overrides, c \in Components : built.images[c] = Wish(o, c)
=============================================================================
