-------------------------- MODULE MCGatewayUpstreams --------------------------
EXTENDS GatewayUpstreamsProperties, TLC

CONSTANTS p1, p2, r1, r2

TwoModels == r1 :> <<p1, p2>> @@ r2 :> <<p1>>
OneModel == [r \in Lanes |-> <<p1>>]
Mixed == r1 :> Streams @@ r2 :> {"chat"}
Whole == [r \in Lanes |-> {"chat"}]
=============================================================================
