--------------------------- MODULE AtlasViewerProps ---------------------------
(***************************************************************************)
(* What the Atlas keeps, on disk and in the page.                          *)
(***************************************************************************)
EXTENDS AtlasViewer

Contents == 0..Torn
Blobs == [key : 0..MaxLocks, name : Names \cup {""}, content : Contents]
HeadOK(h) == /\ h.key \in 0..MaxLocks /\ h.items \in Seq(Names)
             /\ Len(h.items) <= Len(Files) /\ h.digest \in [Names -> Contents]

\* Types; every file of the plaintext tree is in a directory that exists, also after a
\* stash was killed between its two moves.
TypeOK ==
  /\ plain \in [Names -> Contents] /\ stash \in [Names -> Contents] /\ dirs \subseteq Bases
  /\ \A f \in Names : plain[f] # None => Base(f) \in dirs
  /\ latest \in 0..Len(built)
  /\ enc.manifest \in 0..MaxLocks /\ HeadOK(enc.head)
  /\ \A i \in DOMAIN enc.blobs : enc.blobs[i] \in Blobs
  /\ run.op \in {"none", "build", "wipe", "encrypt", "stash", "unlock"}
  /\ page.flow \in {"closed", "prompt", "restore", "unlock", "load", "ready", "dead"}
  /\ HeadOK(page.toc) /\ cache \in [Names -> Contents] /\ shown \in Contents

\* The latest complete data set is whole in one place: the tree, the stash or the
\* ciphertext.  No kill of a lock, stash or unlock begun on the whole of it loses it,
\* although lock removes the old ciphertext before it writes the new and the stash's old
\* copy before it moves the tree, and no kill of a build while the stash or the ciphertext
\* has it.  Three runs lose it, or can ("risked"): a build killed over a tree that was not
\* locked, for it writes over the only copy file by file (then only the raw sources are
\* left); a lock begun on a tree that an unlock, a stash or a build was killed over, which
\* replaces both whole copies by its part; and an unlock after a build that was not
\* locked, which writes the older data set over it.
\* And where the manifest is that of the last lock begun, every blob of its head opens with
\* its key and has the hash the head holds, as verify() checks: the manifest is the last
\* file lock writes and each write went to the name the head gives, so a lock that was
\* killed leaves no manifest and a later removal cannot bring one back.
DatasetSurvives ==
  /\ TypeOK
  /\ latest > 0 /\ ~risked
       => Whole(plain, latest) \/ Whole(stash, latest) \/ EncWhole(latest)
  /\ enc.manifest # 0 /\ enc.manifest = Len(locked) => Verifies

\* Everything the page has decrypted is of one lock, the one whose manifest it loaded:
\* neither a re-lock between two fetches, nor an answer out of the HTTP cache, nor a read
\* that outlives a re-lock of the page mixes two data sets.  And the right passphrase is
\* refused only after the data set was locked again: by a page older than that lock, or
\* with a head the browser kept from before it.
OneDataset ==
  /\ page.toc # NoHead => page.toc.key = page.manifest
  /\ \A f \in Names : cache[f] # None => cache[f] = locked[page.manifest][f]
  /\ shown # None => shown = locked[page.manifest][Index]
  /\ page.wrong => Len(locked) >= 2
=============================================================================
