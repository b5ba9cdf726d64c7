-------------------------------- MODULE MCEc2 --------------------------------
EXTENDS Ec2Lifecycle
=============================================================================
