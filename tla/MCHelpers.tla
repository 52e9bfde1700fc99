------------------------------ MODULE MCHelpers ------------------------------
(***************************************************************************)
(* Values of the constants of Helpers for TLC: images that are official or *)
(* not, with a tag, without one, and behind a registry with a port.        *)
(***************************************************************************)
EXTENDS Helpers

SomeNodeImages == {<<>>, <<"ours/op-node", "v1.12.0">>, <<"ours/op-node">>,
                   <<"host", "5000/op-node">>}
SomeGethImages == {<<>>, <<"ours/op-geth", "v1.0.0">>, <<"ours/op-geth">>}
SomeBatcherImages == {<<>>, <<"ours/op-batcher", "v1.13.3">>, <<"ours/op-batcher">>}
=============================================================================
