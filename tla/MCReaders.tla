----------------------------- MODULE MCReaders -----------------------------
(* Three saves, one of which leaves files that do not load, and three        *)
(* answers of the bridge. To either session the other's saves are an         *)
(* editor's, so the instance opens one of them at a time.                    *)
EXTENDS Readers

OneAtATime == {{"bridge"}, {"studio"}}
=============================================================================
