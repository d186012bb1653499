----------------------------- MODULE MCPipeline -----------------------------
(* Instances of Pipeline for TLC.                                           *)
EXTENDS Pipeline, TLC

Cpus == Permutations(Cpu)

\* A host on which ipToKey's integer has the bytes of the address: 10.0.0.1 is
\* its own key, and so is an IPv6 address.
MCCovers == [p \in Prefix |-> {"10.0.0.1"}]
BigEndian == [s \in Src |-> s]

\* A little-endian host, where the library writes the integer 0x0a000001 as
\* 01 00 00 0a, and the network 10.0.0.0/8 as 00 00 00 0a.
LittleEndian ==
  [s \in Src |-> CASE s = "10.0.0.1" -> "1.0.0.10" [] s = "1.0.0.10" -> "10.0.0.1"
                   [] OTHER -> s]
LECovers == [p \in Prefix |-> {}]
=============================================================================
