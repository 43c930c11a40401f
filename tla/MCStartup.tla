----------------------------- MODULE MCStartup -----------------------------
EXTENDS Startup

\* One network has a known lag, the other has none.
TheNames == {"localnet", "private"}
TheKnown == [n \in {"localnet"} |-> 2]

\* A file's entries give every endpoint, or leave the validators and L1 hosts out.
TheTables == {{"indexer", "metadata"}, {"indexer", "metadata", "validators", "l1"}}

=============================================================================
