-------------------------- MODULE MCFailoverClient --------------------------
EXTENDS FailoverClient

\* The third host's target does not parse.
LastTargetIsBad == {NumHosts - 1}

\* Two heights are asked for, of which a host has both or neither; a stream of two
\* blocks may break before, between and after them.
NoneOrTwo == {0, 2}

=============================================================================
