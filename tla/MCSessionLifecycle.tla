-------------------------- MODULE MCSessionLifecycle --------------------------
\* Two sessions of either kind, so that one meets what the other has left, or one
\* that is host and client at once; the device is lost once.
EXTENDS SessionLifecycle

MCPlans == {<<"host", "host">>, <<"host", "client">>, <<"client", "host">>, <<"client", "client">>,
            <<"both">>}
=============================================================================
