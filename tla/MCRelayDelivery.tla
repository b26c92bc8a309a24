--------------------------- MODULE MCRelayDelivery ---------------------------
\* Instances of the delivery of requests and responses through the relay.
EXTENDS RelayDelivery
=============================================================================
