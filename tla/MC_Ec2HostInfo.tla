---------------------------- MODULE MC_Ec2HostInfo ----------------------------
EXTENDS Ec2HostInfo

\* Every default prefix, one ordinary segment, and two instance ids.
MCSegments == {"ip-", "domu", "ec2amaz-", "web"}
MCInstanceIds == {<<"i-0a">>, <<"i-0b">>}
=============================================================================
