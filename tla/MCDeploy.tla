------------------------------ MODULE MCDeploy ------------------------------
EXTENDS Deploy
CONSTANTS s1, s2
OneScript == {s1}
TwoScripts == {s1, s2}
=============================================================================
