------------------------------ MODULE MCBroker ------------------------------
EXTENDS Broker

=============================================================================
