-------------------------- MODULE MCHostAcceptance --------------------------
EXTENDS HostAcceptance
MCAppOf == <<1, 2>>
MCAsks == <<{"review"}, {"delegate"}>>
=============================================================================
