---------------------------- MODULE UserPlane ----------------------------
(***************************************************************************)
(* The UPF: its PFCP thread (Session Establishment and Modification), the  *)
(* XDP program that counts octets against a TEID's usage reporting rule,   *)
(* and the thread that turns a crossing into a Session Report Request.     *)
(* The three share the eBPF maps without a lock.                           *)
(*                                                                         *)
(* The SMF always asks the UPF to choose the F-TEID, so SEIDs and TEIDs    *)
(* are allocated in step and one number stands for both.                   *)
(***************************************************************************)
EXTENDS Naturals, Sequences, FiniteSets, Folds

CONSTANTS
    MaxTeids,      \* bound: sessions the UPF ever allocates
    MapEntries,    \* max_entries of teid_map and urr_map (64)
    RingSize,      \* events usage_report_ringbuf holds
    MaxOctets,     \* bound: octets counted, over all TEIDs
    Packets        \* sizes of a T-PDU

ASSUME UserPlaneAssumption ==
    /\ MaxTeids \in Nat /\ MapEntries \in Nat /\ RingSize \in Nat
    /\ MaxOctets \in Nat /\ Packets \subseteq Nat \ {0}

VARIABLES
    net,           \* N4 datagrams sent and not yet received: UDP keeps no order,
                   \* and one that is never received is a lost one
    nextTeid,      \* next_seid and next_teid
    seidToTeid,    \* SeidToTeidStore: the sessions the UPF knows
    teidSession,   \* TeidSessionStore: TEID -> the SMF's SEID, 0 without a URR
    urSeqn,        \* next_ur_seqn_
    teidMap,       \* teid_map: the TEIDs the XDP program decapsulates
    urrMap,        \* the TEIDs urr_map has an entry for ...
    urr,           \* ... and the entry
    ring,          \* usage_report_ringbuf
    updating,      \* the Update URR the PFCP thread is in the middle of
    crossings,     \* history: events the XDP program pushed for a TEID
    provisioned    \* history: times a TEID's thresholds were written

upfVars == <<nextTeid, seidToTeid, teidSession, urSeqn, teidMap, urrMap, urr, ring,
             updating, crossings, provisioned>>

Teids == 1..MaxTeids
Octets == 0..MaxOctets

(* A urr_state just written: what was counted, and both latches open.       *)
Provision(m, total) ==
    [threshold |-> m.threshold, quota |-> m.quota, total |-> total,
     thresholdReported |-> 0, quotaReported |-> 0]
NoUpdate == [teid |-> 0]

UpfInit ==
    /\ nextTeid = 1
    /\ seidToTeid = {}
    /\ teidSession = [t \in Teids |-> 0]
    /\ urSeqn = [t \in Teids |-> 0]
    /\ teidMap = {}
    /\ urrMap = {}
    /\ urr = [t \in Teids |-> Provision([threshold |-> 0, quota |-> 0], 0)]
    /\ ring = <<>>
    /\ updating = NoUpdate
    /\ crossings = [t \in Teids |-> 0]
    /\ provisioned = [t \in Teids |-> 0]

---------------------------------------------------------------------------
(* The PFCP thread.                                                         *)

(* register_urr and register_teid: refused once the map is full, which no   *)
(* caller looks at.                                                         *)
register_teid(t) ==
    teidMap' = IF Cardinality(teidMap) < MapEntries THEN teidMap \cup {t} ELSE teidMap

register_urr(t, m) ==
    IF m.hasUrr /\ Cardinality(urrMap) < MapEntries
    THEN /\ urrMap' = urrMap \cup {t}
         /\ urr' = [urr EXCEPT ![t] = Provision(m, 0)]
         /\ provisioned' = [provisioned EXCEPT ![t] = 1]
    ELSE UNCHANGED <<urrMap, urr, provisioned>>

(* Session Establishment: every request makes a new session, one that       *)
(* repeats an earlier request too.                                          *)
SessionEstablishment(m) ==
    /\ m \in net /\ m.type = "establish"
    /\ updating = NoUpdate
    /\ nextTeid <= MaxTeids
    /\ nextTeid' = nextTeid + 1
    /\ register_teid(nextTeid)
    /\ register_urr(nextTeid, m)
    /\ IF m.hasUrr
       THEN /\ teidSession' = [teidSession EXCEPT ![nextTeid] = m.cpSeid]
            /\ urSeqn' = [urSeqn EXCEPT ![nextTeid] = 1]
       ELSE UNCHANGED <<teidSession, urSeqn>>
    /\ seidToTeid' = seidToTeid \cup {nextTeid}
    /\ net' = (net \ {m}) \cup
              {[type |-> "established", seq |-> m.seq, call |-> m.call,
                attempt |-> m.attempt, seid |-> nextTeid]}
    /\ UNCHANGED <<ring, updating, crossings>>

Modified(m) ==
    [type |-> "modified", seq |-> m.seq, call |-> m.call, attempt |-> m.attempt]

(* Session Modification with an Update URR, up to the bpf_map_lookup_elem   *)
(* of update_urr_thresholds.  A SEID the UPF does not know, or a TEID       *)
(* without a URR, is answered RequestRejected.                              *)
SessionModification(m) ==
    /\ m \in net /\ m.type = "modify"
    /\ updating = NoUpdate
    /\ IF m.seid \in seidToTeid /\ m.seid \in urrMap
       THEN /\ updating' = [teid |-> m.seid, read |-> urr[m.seid], request |-> m]
            /\ net' = net \ {m}
       ELSE /\ net' = (net \ {m}) \cup {Modified(m)}
            /\ UNCHANGED updating
    /\ UNCHANGED <<nextTeid, seidToTeid, teidSession, urSeqn, teidMap, urrMap,
                   urr, ring, crossings, provisioned>>

(* ... and its bpf_map_update_elem: the whole entry as it was read, with    *)
(* the new thresholds and both latches cleared.                             *)
update_urr_thresholds ==
    /\ updating # NoUpdate
    /\ urr' = [urr EXCEPT ![updating.teid] =
                  Provision(updating.request, updating.read.total)]
    /\ provisioned' = [provisioned EXCEPT ![updating.teid] = @ + 1]
    /\ net' = net \cup {Modified(updating.request)}
    /\ updating' = NoUpdate
    /\ UNCHANGED <<nextTeid, seidToTeid, teidSession, urSeqn, teidMap, urrMap, ring,
                   crossings>>

---------------------------------------------------------------------------
(* The XDP program, on a T-PDU of n octets for TEID t.                      *)

(* The bound on traffic.                                                    *)
Counted == MapThenFoldSet(LAMBDA a, b : a + b, 0, LAMBDA t : urr[t].total,
                          LAMBDA S : CHOOSE t \in S : TRUE, Teids)

QuotaCrossed(u, total) == u.quota # 0 /\ total >= u.quota /\ u.quotaReported = 0
ThresholdCrossed(u, total) ==
    u.threshold # 0 /\ total >= u.threshold /\ u.thresholdReported = 0

(* The entry after the packet: the new total, and the latches.              *)
Measure(t, total, thresholdReported, quotaReported) ==
    urr' = [urr EXCEPT ![t] =
               [threshold |-> urr[t].threshold, quota |-> urr[t].quota, total |-> total,
                thresholdReported |-> thresholdReported,
                quotaReported |-> quotaReported]]

(* A full ring buffer drops the event; the latch stays set.                 *)
Report(t, total) ==
    /\ crossings' = [crossings EXCEPT ![t] = @ + 1]
    /\ ring' = IF Len(ring) < RingSize THEN Append(ring, [teid |-> t, total |-> total])
                                       ELSE ring

(* Mutant: reporting a crossed quota does not latch it.                     *)
gtpu_decap_Unlatched(t, n) ==
    LET u == urr[t]
        total == u.total + n IN
    /\ t \in teidMap /\ t \in urrMap /\ Counted + n <= MaxOctets
    /\ IF QuotaCrossed(u, total) \/ ThresholdCrossed(u, total)
       THEN Measure(t, total, 1, u.quotaReported) /\ Report(t, total)
       ELSE /\ Measure(t, total, u.thresholdReported, u.quotaReported)
            /\ UNCHANGED <<crossings, ring>>
    /\ UNCHANGED <<net, nextTeid, seidToTeid, teidSession, urSeqn, teidMap, urrMap,
                   updating, provisioned>>

(* One event per packet at most, a crossed quota first.  A TEID without a   *)
(* URR is decapsulated and not measured.                                    *)
gtpu_decap(t, n) ==
    LET u == urr[t]
        total == u.total + n IN
    /\ t \in teidMap /\ t \in urrMap /\ Counted + n <= MaxOctets
    /\ \/ /\ QuotaCrossed(u, total)
          /\ Measure(t, total, u.thresholdReported, 1)
          /\ Report(t, total)
       \/ /\ ~QuotaCrossed(u, total) /\ ThresholdCrossed(u, total)
          /\ Measure(t, total, 1, u.quotaReported)
          /\ Report(t, total)
       \/ /\ ~QuotaCrossed(u, total) /\ ~ThresholdCrossed(u, total)
          /\ Measure(t, total, u.thresholdReported, u.quotaReported)
          /\ UNCHANGED <<crossings, ring>>
    /\ UNCHANGED <<net, nextTeid, seidToTeid, teidSession, urSeqn, teidMap, urrMap,
                   updating, provisioned>>

(* usage_report_handler: the next event becomes a Session Report Request    *)
(* to the SEID the SMF gave; nobody waits for its answer or repeats it.     *)
usage_report_handler ==
    /\ ring # <<>>
    /\ LET e == Head(ring) IN
       IF teidSession[e.teid] # 0
       THEN /\ urSeqn' = [urSeqn EXCEPT ![e.teid] = @ + 1]
            /\ net' = net \cup {[type |-> "report", seid |-> teidSession[e.teid],
                                 teid |-> e.teid, urSeqn |-> urSeqn[e.teid],
                                 total |-> e.total]}
       ELSE UNCHANGED <<urSeqn, net>>
    /\ ring' = Tail(ring)
    /\ UNCHANGED <<nextTeid, seidToTeid, teidSession, teidMap, urrMap, urr, updating,
                   crossings, provisioned>>
==========================================================================
