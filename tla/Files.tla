-------------------------------- MODULE Files --------------------------------
(***************************************************************************)
(* File and TempFile: a path and at most one stdio stream on it.  stdio    *)
(* keeps what was written in a buffer of its own, and the stream has one   *)
(* position for reading and writing, so that write(), readAll() and        *)
(* flush() have to be interleaved with care.  program is what the calls    *)
(* that reported success add up to; disk is what the system has.           *)
(***************************************************************************)
EXTENDS Naturals, Sequences, SequencesExt, FiniteSetsExt

CONSTANTS Paths, Bytes,
          None,         \* there is no such file; no path
          FullDisk,     \* TRUE: the system may refuse to take what stdio has buffered
          Redirects,    \* TRUE: setFilePath() and remove() are called on temporary files, too
          MaxBytes      \* bound: the length of a file

VARIABLES disk,         \* disk[p]: the bytes of file p
          program,      \* program[p]: the bytes as the program knows them
          temp,         \* the object is a TempFile
          path,         \* m_filePath
          handle,       \* m_handle: [mode, pos, pending], None: not open
          cursor,       \* where the program expects its next byte to go
          answer,       \* what the last readAll() returned, None: none since
          alive         \* the object has not been destroyed

fileVars == <<disk, program, temp, path, handle, cursor, answer, alive>>

Init ==
    /\ disk \in [Paths -> {None, <<>>}]
    /\ program = disk
    /\ temp \in BOOLEAN
    /\ path = IF temp THEN None ELSE CHOOSE p \in Paths : TRUE
    /\ handle = None
    /\ cursor = 0
    /\ answer = None
    /\ alive = TRUE

\* modeString(): the mode of fopen() for the flags of open().
Modes == {"rb", "wb", "r+b", "ab", "a+b", "w+b"}
Readable(m) == m \in {"rb", "r+b", "a+b", "w+b"}
Writable(m) == m # "rb"

\* The bytes s written at position pos of the content c; an appending stream
\* writes at the end.
Overwritten(c, pos, s) ==
    SubSeq(c, 1, pos) \o s \o SubSeq(c, pos + Len(s) + 1, Len(c))

At(h, c) == IF h.mode \in {"ab", "a+b"} THEN Len(c) ELSE h.pos

\* fflush(), and the flush in fclose() and fseek(): stdio hands its buffer to
\* the system.  pos is where the buffer goes.
Flushed(c, h) == Overwritten(c, At(h, c), h.pending)

Kept(h, c) == [h EXCEPT !.pos = IF h.pending = <<>> THEN h.pos ELSE At(h, c) + Len(h.pending), !.pending = <<>>]

\* The outcomes of a flush; a failed one loses the buffer.
Outcomes(c, h) == {Flushed(c, h)} \cup IF FullDisk /\ h.pending # <<>> THEN {c} ELSE {}

\* close(): nobody looks at what fclose() returns.
Close ==
    /\ alive /\ handle # None
    /\ \E c \in Outcomes(disk[path], handle) : disk' = [disk EXCEPT ![path] = c]
    /\ handle' = None
    /\ answer' = None
    /\ UNCHANGED <<program, temp, path, cursor, alive>>

\* fopen(): "r" needs the file, "w" empties it.
Streams(m) ==
    IF m \in {"rb", "r+b"} /\ disk[path] = None THEN {}
    ELSE {[mode |-> m, pos |-> 0, pending |-> <<>>]}

\* open() on a File that is closed (it closes an open one first).
Open(m) ==
    /\ alive /\ handle = None /\ path # None
    /\ temp => m = "r+b"
    /\ \E h \in Streams(m) :
        LET c == IF m \in {"wb", "w+b"} \/ disk[path] = None THEN <<>> ELSE disk[path]
        IN  /\ handle' = h
            /\ disk' = [disk EXCEPT ![path] = c]
            /\ program' = [program EXCEPT ![path] = IF m \in {"wb", "w+b"} \/ @ = None THEN <<>> ELSE @]
    /\ cursor' = 0
    /\ answer' = None
    /\ UNCHANGED <<temp, path, alive>>

\* TempFile::open() without a path: mkstemp() makes an empty file under a name
\* that nobody uses, and File::open() opens it.
OpenTemp ==
    /\ alive /\ temp /\ path = None
    /\ \E p \in Paths :
        /\ disk[p] = None
        /\ path' = p
        /\ disk' = [disk EXCEPT ![p] = <<>>]
        /\ program' = [program EXCEPT ![p] = <<>>]
        /\ handle' = [mode |-> "r+b", pos |-> 0, pending |-> <<>>]
    /\ cursor' = 0
    /\ answer' = None
    /\ UNCHANGED <<temp, alive>>

\* write(): fwrite() into the buffer of the stream, behind what is there.
Write(b) ==
    /\ alive /\ handle # None /\ Writable(handle.mode)
    /\ LET at == IF handle.mode \in {"ab", "a+b"} THEN Len(program[path]) ELSE cursor
       IN  /\ at < MaxBytes
           /\ program' = [program EXCEPT ![path] = Overwritten(@, at, <<b>>)]
           /\ cursor' = at + 1
    /\ handle' = [handle EXCEPT !.pending = Append(@, b)]
    /\ answer' = None
    /\ UNCHANGED <<disk, temp, path, alive>>

\* flush().
Flush ==
    /\ alive /\ handle # None
    /\ disk' = [disk EXCEPT ![path] = Flushed(@, handle)]
    /\ handle' = Kept(handle, disk[path])
    /\ answer' = None
    /\ UNCHANGED <<program, temp, path, cursor, alive>>

\* Mutant: the position is left at the end of what was read.
Restored_AtEnd(h, c) == [Kept(h, c) EXCEPT !.pos = Len(Flushed(c, h))]

\* The last fseek() of readAllFromHandle().
Restored(h, c) == Kept(h, c)

\* readAll(): flush, go to the start, read up to the end, go back.
ReadAll ==
    /\ alive /\ handle # None /\ Readable(handle.mode)
    /\ LET c == IF Writable(handle.mode) THEN Flushed(disk[path], handle) ELSE disk[path]
       IN  /\ answer' = c
           /\ disk' = [disk EXCEPT ![path] = c]
    /\ handle' = Restored(handle, disk[path])
    /\ UNCHANGED <<program, temp, path, cursor, alive>>

\* setFilePath(): only a closed file can change its path.
SetFilePath(p) ==
    /\ alive /\ handle = None /\ p # path
    /\ temp => Redirects
    /\ path' = p
    /\ answer' = None
    /\ UNCHANGED <<disk, program, temp, handle, cursor, alive>>

\* remove(), after the close() it does first.
RemoveFile ==
    /\ alive /\ handle = None /\ path # None
    /\ temp => Redirects
    /\ disk[path] # None
    /\ disk' = [disk EXCEPT ![path] = None]
    /\ program' = [program EXCEPT ![path] = None]
    /\ answer' = None
    /\ UNCHANGED <<temp, path, handle, cursor, alive>>

\* The static writeAll(): a stream of its own, and every step of it counts; what
\* it is refused is gone from the file, and the caller knows.
WriteAll(p, b) ==
    /\ alive /\ (p = path => handle = None)
    /\ \E c \in {<<b>>} \cup IF FullDisk THEN {<<>>} ELSE {} :
        disk' = [disk EXCEPT ![p] = c] /\ program' = [program EXCEPT ![p] = c]
    /\ answer' = None
    /\ UNCHANGED <<temp, path, handle, cursor, alive>>

\* The static remove(), of a file that is not open here.
RemovePath(p) ==
    /\ alive /\ disk[p] # None /\ (p = path => handle = None)
    /\ temp /\ p = path => Redirects
    /\ disk' = [disk EXCEPT ![p] = None]
    /\ program' = [program EXCEPT ![p] = None]
    /\ answer' = None
    /\ UNCHANGED <<temp, path, handle, cursor, alive>>

\* Mutant: the destructor of the base class closes the file, and no more.
Survives_Always(p) == TRUE

\* m_autoRemove is on unless the program says otherwise.
Survives(p) == ~temp \/ p # path

\* ~TempFile() and ~File() of a closed object.
Destroy ==
    /\ alive /\ handle = None
    /\ alive' = FALSE
    /\ disk' = [p \in Paths |-> IF Survives(p) THEN disk[p] ELSE None]
    /\ program' = [p \in Paths |-> IF ~temp \/ p # path THEN program[p] ELSE None]
    /\ answer' = None
    /\ UNCHANGED <<temp, path, handle, cursor>>

Next ==
    \/ Close
    \/ \E m \in Modes : Open(m)
    \/ OpenTemp
    \/ \E b \in Bytes : Write(b)
    \/ Flush
    \/ ReadAll
    \/ \E p \in Paths, b \in Bytes : WriteAll(p, b)
    \/ \E p \in Paths : SetFilePath(p) \/ RemovePath(p)
    \/ RemoveFile
    \/ Destroy

Spec == Init /\ [][Next]_fileVars

-----------------------------------------------------------------------------
\* What the program wrote is on the disk, or in the buffer of the stream for
\* the place it was meant for: no call in between has moved the position or
\* lost a byte.
NothingLost ==
    \A p \in Paths :
        IF p = path /\ handle # None THEN Flushed(disk[p], handle) = program[p]
        ELSE disk[p] = program[p]

\* readAll() returns all that was written before it, also what stdio still had.
ReadsWhatWasWritten == answer # None => answer = program[path]

\* A temporary file that was not opened twice under two names is gone with
\* its object, and can be opened again as long as the object lives.
TempFilesEnd ==
    temp => /\ (~alive /\ path # None) => disk[path] = None
            /\ (alive /\ path # None) => disk[path] # None

\* Files hold what was written to them.
FilesFaithful == NothingLost /\ ReadsWhatWasWritten /\ TempFilesEnd
==============================================================================
