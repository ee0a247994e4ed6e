------------------------------ MODULE Download ------------------------------
(***************************************************************************)
(* ensure_downloaded and download_locked of src/provider/local/download.rs:*)
(* loaders of several processes want the same model file.  One at a time   *)
(* holds the lock file and fills the partial file, which outlives failures *)
(* and crashes; the next one resumes it.  A file is the sequence of its    *)
(* parts, a part the version of the repository it came from.               *)
(***************************************************************************)
EXTENDS Naturals, Sequences

CONSTANTS Loaders, NoLoader,
          Versions,     \* contents the server has had for this file
          FileLen,      \* parts of a file
          Pins,         \* the version the caller's digest is of, or Unpinned
          Unpinned,
          MaxCrashes, MaxAttempts

ASSUME DownloadAssumption == NoLoader \notin Loaders /\ FileLen \in Nat

Absent == <<>>

VARIABLES pin,        \* sha256
          served,     \* the server's version now
          final, partial,
          lockHolder,
          fetch,      \* each loader's call
          attempts, crashes

downloadVars == <<pin, served, final, partial, lockHolder, fetch, attempts, crashes>>

Content(v) == [i \in 1 .. FileLen |-> v]

\* `hashed` is what the hasher was fed, `buffer` what the writer holds back,
\* `rest` the body still to come, `total` the announced length.
Idle == [pc |-> "idle", offset |-> 0, hashed |-> <<>>, restarted |-> FALSE,
         buffer |-> <<>>, rest |-> <<>>, total |-> 0, done |-> 0]

DownloadInit ==
    /\ pin \in Pins
    /\ served \in Versions
    /\ final = Absent /\ partial = Absent
    /\ lockHolder = NoLoader
    /\ fetch = [l \in Loaders |-> Idle]
    /\ attempts = 0 /\ crashes = 0

Unlocked(l) == lockHolder' = IF lockHolder = l THEN NoLoader ELSE lockHolder

Returns(l, how) == fetch' = [fetch EXCEPT ![l] = [Idle EXCEPT !.pc = how]]

-----------------------------------------------------------------------------
\* The caller loads the model; the first look at the final path.
Begin(l) ==
    /\ fetch[l].pc \in {"idle", "ok", "failed"} /\ attempts < MaxAttempts
    /\ attempts' = attempts + 1
    /\ Returns(l, IF final # Absent THEN "ok" ELSE "lock")
    /\ UNCHANGED <<pin, served, final, partial, lockHolder, crashes>>

LooksAgain == final # Absent

\* The lock, the second look, and the hash of what a partial file holds.
Lock(l) ==
    /\ fetch[l].pc = "lock" /\ lockHolder = NoLoader
    /\ IF LooksAgain
       THEN Returns(l, "ok") /\ UNCHANGED lockHolder
       ELSE /\ lockHolder' = l
            /\ fetch' = [fetch EXCEPT ![l] = [Idle EXCEPT !.pc = "request",
                            !.offset = Len(partial), !.hashed = partial]]
    /\ UNCHANGED <<pin, served, final, partial, attempts, crashes>>

\* A response whose body starts at part `from`.
Body(l, from, hashed) ==
    fetch' = [fetch EXCEPT ![l] =
                 [@ EXCEPT !.pc = "write", !.offset = from, !.hashed = hashed, !.done = from,
                           !.rest = SubSeq(Content(served), from + 1, FileLen), !.total = FileLen]]

\* 206 from the offset asked for, and 200 to a request from the start.
AnswerAsked(l) ==
    /\ fetch[l].pc = "request" /\ fetch[l].offset < FileLen
    /\ Body(l, fetch[l].offset, fetch[l].hashed)
    /\ UNCHANGED <<pin, served, final, partial, lockHolder, attempts, crashes>>

\* Slip: the hasher keeps what the partial file held.
KeptHash(l) == fetch[l].hashed

FreshHash(l) == <<>>

\* 200 to a range request: the body is the whole file.
AnswerWhole(l) ==
    /\ fetch[l].pc = "request" /\ fetch[l].offset > 0
    /\ Body(l, 0, FreshHash(l))
    /\ UNCHANGED <<pin, served, final, partial, lockHolder, attempts, crashes>>

\* 416, or a 206 from elsewhere: once, start over without the partial file.
AnswerUnusable(l) ==
    /\ fetch[l].pc = "request"
    /\ IF fetch[l].restarted
       THEN Returns(l, "failed") /\ Unlocked(l) /\ UNCHANGED partial
       ELSE /\ fetch' = [fetch EXCEPT ![l] = [Idle EXCEPT !.pc = "request", !.restarted = TRUE]]
            /\ partial' = Absent
            /\ UNCHANGED lockHolder
    /\ UNCHANGED <<pin, served, final, attempts, crashes>>

\* An HTTP error, or no answer: the partial file stays.
AnswerError(l) ==
    /\ fetch[l].pc = "request"
    /\ Returns(l, "failed") /\ Unlocked(l)
    /\ UNCHANGED <<pin, served, final, partial, attempts, crashes>>

\* append(true), or create, which truncates.
Opened(l) == IF fetch[l].offset > 0 THEN partial ELSE Absent

Open(l) ==
    /\ fetch[l].pc = "write"
    /\ partial' = Opened(l)
    /\ fetch' = [fetch EXCEPT ![l].pc = "stream"]
    /\ UNCHANGED <<pin, served, final, lockHolder, attempts, crashes>>

\* A chunk is buffered and hashed; a full buffer goes to the file first.
Receive(l) ==
    /\ fetch[l].pc = "stream" /\ fetch[l].rest # <<>>
    /\ LET chunk == <<Head(fetch[l].rest)>>
           next == [fetch[l] EXCEPT !.rest = Tail(@), !.hashed = @ \o chunk, !.done = @ + 1]
       IN  \/ /\ fetch' = [fetch EXCEPT ![l] = [next EXCEPT !.buffer = @ \o chunk]]
              /\ UNCHANGED partial
           \/ /\ fetch' = [fetch EXCEPT ![l] = [next EXCEPT !.buffer = chunk]]
              /\ partial' = partial \o fetch[l].buffer
    /\ UNCHANGED <<pin, served, final, lockHolder, attempts, crashes>>

\* The body ends early, or nothing comes for 60 s: the writer is flushed by
\* its drop, the file stays for a later resume.
Cut(l) ==
    /\ fetch[l].pc = "stream" /\ fetch[l].rest # <<>>
    /\ partial' = partial \o fetch[l].buffer
    /\ Returns(l, "failed") /\ Unlocked(l)
    /\ UNCHANGED <<pin, served, final, attempts, crashes>>

\* The end of the body: flush, the length, the digest, the rename.
Finish(l) ==
    /\ fetch[l].pc = "stream" /\ fetch[l].rest = <<>>
    /\ LET written == partial \o fetch[l].buffer
           short == fetch[l].done # fetch[l].total
           wrong == pin # Unpinned /\ fetch[l].hashed # Content(pin)
       IN  /\ partial' = IF short THEN written ELSE Absent
           /\ final' = IF short \/ wrong THEN final ELSE written
           /\ Returns(l, IF short \/ wrong THEN "failed" ELSE "ok")
    /\ Unlocked(l)
    /\ UNCHANGED <<pin, served, attempts, crashes>>

\* A process dies: the lock goes with it, the buffer is lost.
Crash(l) ==
    /\ fetch[l].pc \notin {"idle", "ok", "failed"} /\ crashes < MaxCrashes
    /\ crashes' = crashes + 1
    /\ Returns(l, "idle") /\ Unlocked(l)
    /\ UNCHANGED <<pin, served, final, partial, attempts>>

\* The repository gets a new version of the file.
Publish ==
    /\ served' \in Versions \ {served}
    /\ UNCHANGED <<pin, final, partial, lockHolder, fetch, attempts, crashes>>

DownloadNext ==
    \/ \E l \in Loaders :
          \/ Begin(l) \/ Lock(l) \/ AnswerAsked(l) \/ AnswerWhole(l) \/ AnswerUnusable(l)
          \/ AnswerError(l) \/ Open(l) \/ Receive(l) \/ Cut(l) \/ Finish(l) \/ Crash(l)
    \/ Publish

DownloadSpec == DownloadInit /\ [][DownloadNext]_downloadVars

-----------------------------------------------------------------------------
\* A model file with a digest is the version the digest is of, whatever was
\* resumed, restarted, crashed or republished on the way; without one it has
\* at least the announced length.
FinalIsVerified ==
    final # Absent => /\ Len(final) = FileLen
                      /\ pin # Unpinned => final = Content(pin)

\* What the digest is checked over is what the file holds: the parts on disk
\* and those the writer still buffers.
HashFollowsFile ==
    \A l \in Loaders :
        fetch[l].pc = "stream" => fetch[l].hashed = partial \o fetch[l].buffer

\* A model file is never replaced while somebody may have it mapped.
FinalStays == [][final # Absent => final' = final]_downloadVars

\* A model file with a digest is what the digest is of, the digest is taken
\* over what the file holds, and a file in use is never replaced.
ModelFileSafe == [](FinalIsVerified /\ HashFollowsFile) /\ FinalStays
=============================================================================
