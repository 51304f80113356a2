------------------------------ MODULE ShareMem ------------------------------
(***************************************************************************)
(* The configuration in shared memory: sharemem/sharemem.c.  Scripts of    *)
(* several processes load files into one named memory and read them there, *)
(* with nothing to keep them apart.                                        *)
(*                                                                         *)
(* A text is a sequence of bytes, 0 the byte that ends a string.  The      *)
(* memory is as long as the pages it takes; only what lies behind the head *)
(* of SharedJSON is counted.  json_data has one byte of its own, so that a *)
(* load copies one byte more than the head and the text: the last byte of  *)
(* a buffer from malloc, which nobody has written.  Names are shorter than *)
(* the 255 bytes that are copied of one.                                   *)
(***************************************************************************)
EXTENDS CStrings, SequencesExt

CONSTANTS
  Loaders, Readers, \* the scripts
  Names,            \* the names of the files
  Absent,           \* no such memory, no such value
  Contents,         \* bound: what a file may hold
  Stray,            \* bound: what the byte nobody has written may be
  Header,           \* the bytes of a SharedJSON before json_data
  Page,             \* the bytes of a page
  MaxConfig         \* 10 MB: a script is given no text that is longer

\* What lies in the memory.
SharedJSON == [filename : Names \cup {Absent}, data_size : Nat, json_data : Seq(Nat)]

ASSUME ShareAssumption ==
  /\ Header \in Nat /\ Page \in Nat \ {0} /\ MaxConfig \in Nat
  /\ Absent \notin Names \cup SharedJSON /\ Contents \subseteq Seq(Nat) /\ Stray \subseteq Nat

VARIABLES
  windows,  \* which of the two branches the program was built with
  shm,      \* the shared memory: filename, data_size and json_data
  buffer,   \* per loader: the file it has read
  place,    \* where each script is
  wanted,   \* per reader: the file it asks for
  config,   \* per reader: the string get_config has given it, and what was due
  latest,   \* history: what the last load put there, if no other was under way
  torn,     \* history: the scripts that met a load under way
  longest   \* history: the length of the longest text that was ever loaded

shareVars == <<windows, shm, buffer, place, wanted, config, latest, torn, longest>>

\* The bytes behind the head in the pages that hold a text of n bytes and the
\* stray byte.
Room(n) == ((Header + 1 + n + Page - 1) \div Page) * Page - Header
Zeros(n) == [i \in 1 .. n |-> 0]
Over(text, memory) == [i \in DOMAIN memory |-> IF i \in DOMAIN text THEN text[i] ELSE memory[i]]
NoResult == [text |-> Absent, due |-> Absent]
Moved(p, to) == place' = [place EXCEPT ![p] = to]
\* The scripts that read or write the memory.
Reading == {r \in Readers : place[r] \in {"check", "copy"}}
Writing == {l \in Loaders : place[l] \in {"head", "data"}}

ShareInit ==
  /\ windows \in BOOLEAN
  /\ shm = Absent /\ buffer = [l \in Loaders |-> Absent]
  /\ place = [p \in Loaders \cup Readers |-> "idle"]
  /\ wanted = [r \in Readers |-> Absent] /\ config = [r \in Readers |-> NoResult]
  /\ latest = Absent /\ torn = {} /\ longest = 0

-----------------------------------------------------------------------------
(* load_json_to_shm *)

\* The file, with the text it has by now, is read into the buffer; without a
\* file the call fails.
LoadRead(l, n, text) ==
  /\ place[l] = "idle"
  /\ buffer' = [buffer EXCEPT ![l] = [name |-> n, text |-> text]]
  /\ Moved(l, "create")
  /\ UNCHANGED <<windows, shm, wanted, config, latest, torn, longest>>

\* create_shared_memory.  Windows opens a mapping that exists as it is, and
\* cannot map more of it than it has; ftruncate gives it another length.
LoadCreate(l) ==
  /\ place[l] = "create"
  /\ LET room == Room(Len(buffer[l].text)) IN
       \/ /\ shm = Absent
          /\ shm' = [filename |-> Absent, data_size |-> 0, json_data |-> Zeros(room)]
          /\ Moved(l, "head")
       \/ /\ shm # Absent /\ windows
          /\ Moved(l, IF room <= Len(shm.json_data) THEN "head" ELSE "idle")
          /\ UNCHANGED shm
       \/ /\ shm # Absent /\ ~windows
          /\ shm' = [shm EXCEPT !.json_data = Over(@, Zeros(room))]
          /\ Moved(l, "head")
  /\ torn' = (torn \ {l}) \cup Reading \cup Writing \cup (IF Writing = {} THEN {} ELSE {l})
  /\ buffer' = IF place'[l] = "idle" THEN [buffer EXCEPT ![l] = Absent] ELSE buffer
  /\ UNCHANGED <<windows, wanted, config, latest, longest>>

\* memcpy: the head ...
LoadHead(l) ==
  /\ place[l] = "head"
  /\ shm' = [shm EXCEPT !.filename = buffer[l].name, !.data_size = Len(buffer[l].text)]
  /\ Moved(l, "data")
  /\ torn' = torn \cup Reading
  /\ UNCHANGED <<windows, buffer, wanted, config, latest, longest>>

\* ... and the text with the stray byte.  On Linux another load may have made the
\* memory shorter: what lies behind its end cannot be written.
LoadData(l, stray) ==
  /\ place[l] = "data"
  /\ LET text == buffer[l].text IN
       IF Len(text) + 1 <= Len(shm.json_data)
       THEN /\ shm' = [shm EXCEPT !.json_data = Over(Append(text, stray), @)]
            /\ Moved(l, "idle")
            /\ longest' = IF Len(text) > longest THEN Len(text) ELSE longest
       ELSE /\ Moved(l, "crashed")
            /\ UNCHANGED <<shm, longest>>
  /\ latest' = IF l \in torn THEN Absent ELSE buffer[l]
  /\ torn' = (torn \cup Reading) \ {l}
  /\ buffer' = [buffer EXCEPT ![l] = Absent]
  /\ UNCHANGED <<windows, wanted, config>>

-----------------------------------------------------------------------------
(* get_json_config, and lua_pushstring with what it returns *)

\* map_shared_memory.  On Linux mmap refuses the length 0 and returns
\* MAP_FAILED, which is not NULL: the script reads through it and crashes.
ReadMap(r, n) ==
  /\ place[r] = "idle" /\ shm # Absent
  /\ wanted' = [wanted EXCEPT ![r] = n]
  /\ Moved(r, IF windows THEN "check" ELSE "crashed")
  /\ config' = [config EXCEPT ![r] = NoResult]
  /\ torn' = IF Writing = {} THEN torn \ {r} ELSE torn \cup {r}
  /\ UNCHANGED <<windows, shm, buffer, latest, longest>>

\* Faulty variant: the name is not compared.
ReadCheckSize(r) ==
  /\ place[r] = "check"
  /\ Moved(r, IF shm.data_size \in 1 .. MaxConfig THEN "copy" ELSE "idle")
  /\ UNCHANGED <<windows, shm, buffer, wanted, config, latest, torn, longest>>

\* The name and the size are those of a file; if not, the script gets nil.
ReadCheck(r) ==
  /\ place[r] = "check"
  /\ Moved(r, IF shm.filename = wanted[r] /\ shm.data_size \in 1 .. MaxConfig THEN "copy" ELSE "idle")
  /\ UNCHANGED <<windows, shm, buffer, wanted, config, latest, torn, longest>>

\* Lua copies the string: all up to the first 0, wherever that is.  When the pages
\* hold none the copy goes on behind the mapping.
ReadCopy(r) ==
  /\ place[r] = "copy"
  /\ IF 0 \in Range(shm.json_data)
     THEN /\ config' = [config EXCEPT ![r] =
               [text |-> CString(shm.json_data), due |-> IF r \in torn THEN Absent ELSE latest]]
          /\ Moved(r, "idle")
     ELSE /\ Moved(r, "crashed")
          /\ UNCHANGED config
  /\ torn' = torn \ {r}
  /\ UNCHANGED <<windows, shm, buffer, wanted, latest, longest>>

ShareNext ==
  \/ \E l \in Loaders :
       \/ \E n \in Names, text \in Contents : LoadRead(l, n, text)
       \/ LoadCreate(l) \/ LoadHead(l) \/ \E stray \in Stray : LoadData(l, stray)
  \/ \E r \in Readers : ReadCheck(r) \/ ReadCopy(r) \/ \E n \in Names : ReadMap(r, n)

ShareSpec == ShareInit /\ [][ShareNext]_shareVars

-----------------------------------------------------------------------------
(* Properties *)

\* What get_config gives a script begins with the whole text of the file the script
\* asked for, as the last load found it, and it is that text up to the first 0 in it
\* when there is one - unless loads ran at the same time as each other or as the
\* call.  What comes behind the text is the stray byte and, when that is not 0, the
\* end an earlier and longer text has left there: whatever ran at the same time, no
\* string is longer than the longest text that was loaded and the stray byte behind
\* it.  (load_json_to_shm, get_json_config, lua_get_config)
ConfigWhole ==
  \A r \in Readers :
    LET got == config[r].text
        due == config[r].due
    IN /\ due # Absent =>
            /\ due.name = wanted[r]
            /\ IsPrefix(CString(due.text), got)
            /\ 0 \in Range(due.text) => got = CString(due.text)
       /\ got # Absent => Len(got) <= longest + 1

=============================================================================
