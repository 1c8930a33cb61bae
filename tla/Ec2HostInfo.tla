----------------------------- MODULE Ec2HostInfo -----------------------------
(***************************************************************************)
(* exporter/datadogexporter/internal/metadata/ec2/ec2.go.                  *)
(*                                                                         *)
(* GetHostInfo builds an AWS session and, if the EC2 metadata service is  *)
(* available, makes two independent metadata calls: the instance identity *)
(* document (InstanceID) and "hostname" (EC2Hostname).  Each may fail on  *)
(* its own; a failure is logged and leaves its field empty.  GetHostname  *)
(* then prefers the instance id when the EC2 hostname is a default one.   *)
(* A string is a sequence of segments, so strings.HasPrefix is IsPrefix;  *)
(* the default prefixes are single segments.  What the AWS SDK returns is *)
(* a nondeterministic input.                                               *)
(***************************************************************************)
EXTENDS Naturals, Sequences, SequencesExt

CONSTANTS
  Segments,      \* the segments hostnames are made of
  InstanceIds,   \* instance ids the identity document may carry
  MaxSegments    \* bound on the length of a hostname

\* defaultPrefixes (line 25).
DefaultPrefixes == {<<"ip-">>, <<"domu">>, <<"ec2amaz-">>}

Hostnames == UNION {[1..n -> Segments] : n \in 0..MaxSegments}

Calls == {"session", "meta", "id", "hostname"}

VARIABLES
  hostInfo,   \* the HostInfo GetHostInfo returns (EC2Tags is never set here)
  failed,     \* the calls that failed or were unavailable, in the log
  returned    \* GetHostInfo has returned

vars == <<hostInfo, failed, returned>>

EmptyHostInfo == [InstanceID |-> <<>>, EC2Hostname |-> <<>>]

(* isDefaultHostname (35-43): the loop over defaultPrefixes.               *)
isDefaultHostname(hostname) == \E p \in DefaultPrefixes : IsPrefix(p, hostname)

(* GetHostname (77-83).                                                    *)
GetHostname(hi) ==
  IF isDefaultHostname(hi.EC2Hostname) THEN hi.InstanceID ELSE hi.EC2Hostname

Init ==
  /\ hostInfo = EmptyHostInfo
  /\ failed = {}
  /\ returned = FALSE

\* Mutant: the InstanceID assignment of line 63 is missing.
GetHostInfoDropsId ==
  /\ ~returned
  /\ returned' = TRUE
  /\ \E id \in InstanceIds, name \in Hostnames, f \in SUBSET {"id", "hostname"} :
       /\ failed' = f
       /\ hostInfo' = [EmptyHostInfo EXCEPT
                         !.EC2Hostname = IF "hostname" \in f THEN <<>> ELSE name]

(* GetHostInfo (46-75): a session error (50-53) or an unavailable metadata *)
(* service (57-60) returns the empty HostInfo; otherwise each of the two   *)
(* calls sets its field only if it succeeds (62-72).                      *)
GetHostInfo ==
  /\ ~returned
  /\ returned' = TRUE
  /\ \/ failed' = {"session"} /\ hostInfo' = EmptyHostInfo
     \/ failed' = {"meta"} /\ hostInfo' = EmptyHostInfo
     \/ \E id \in InstanceIds, name \in Hostnames, f \in SUBSET {"id", "hostname"} :
          /\ failed' = f
          /\ hostInfo' = [InstanceID  |-> IF "id" \in f THEN <<>> ELSE id,
                          EC2Hostname |-> IF "hostname" \in f THEN <<>> ELSE name]

Done == returned /\ UNCHANGED vars

Next == GetHostInfo \/ Done

Spec == Init /\ [][Next]_vars

-----------------------------------------------------------------------------
(* Properties *)

(* GetHostname is empty only if the session, the metadata service or one  *)
(* of the two calls failed, or EC2 reported an empty hostname.  In         *)
(* particular a failed identity-document call empties it exactly when the *)
(* EC2 hostname is a default one (the hazard at line 78).                 *)
HostnameEmptyOnlyOnFailure ==
  returned /\ GetHostname(hostInfo) = <<>> =>
    \/ failed \cap {"session", "meta", "hostname"} # {}
    \/ hostInfo.EC2Hostname = <<>>
    \/ "id" \in failed /\ isDefaultHostname(hostInfo.EC2Hostname)
=============================================================================
