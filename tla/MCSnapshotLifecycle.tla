------------------------- MODULE MCSnapshotLifecycle -------------------------
(* SnapshotLifecycle with two servers and tokens, and a directory that may hold
   snapshots of earlier runs, one of a newer version and a damaged file. *)
EXTENDS SnapshotLifecycle, TLC

CONSTANTS s1, s2, t1, t2

Seed(s, t, e, p) == [owner |-> [server |-> s, token |-> t], envelopeOK |-> e,
                     payloadOK |-> p, user |-> 0, stamp |-> 0]

MCSeeds == {Seed(s1, t1, TRUE, TRUE), Seed(s1, t2, TRUE, FALSE),
            Seed(s2, t1, FALSE, TRUE), Damaged}
=============================================================================
