---------------------------- MODULE ConfigUpdate ----------------------------
(***************************************************************************)
(* config/update.py: the tables of README.md, the target list of build.tcl *)
(* and the paths of .gitignore are generated from data.json, each between  *)
(* the marker lines of its file. A file is read whole, opened for writing  *)
(* (which empties it) and written line by line.                            *)
(***************************************************************************)
EXTENDS Naturals, FiniteSets, SequencesExt

CONSTANTS
    DataVersions,   \* contents of data.json: sequences of designs
    Groups,         \* its "groups", in order
    Templates,      \* the lines of the files, markers included
    MaxUpdates      \* bound on the runs and edits

Files == <<"README.md", "build.tcl", ".gitignore">>
UpdFiles == Range(Files)

VARIABLE upd

-----------------------------------------------------------------------------
(* What is generated. A line is a tuple; the lines of a design name it.     *)

Members(data, g) == SelectSeq(data, LAMBDA d : d.publish /\ d.group = g)

\* The elements of xs in the order of their first occurrence.
Distinct(xs) ==
    LET first == {i \in DOMAIN xs : \A j \in 1 .. i - 1 : xs[j] # xs[i]}
    IN [n \in 1 .. Cardinality(first) |-> xs[SetToSortSeq(first, <)[n]]]

\* One table for each group that has a published design, then the links of
\* the boards in them.
create_tables(data) ==
    LET Rows(g) == [i \in DOMAIN Members(data, g) |-> <<"row", Members(data, g)[i].label>>]
        used == SelectSeq(Groups, LAMBDA g : Members(data, g) # <<>>)
        published == FlattenSeq([i \in DOMAIN used |-> Members(data, used[i])])
        links == Distinct([i \in DOMAIN published |-> <<"link", published[i].board>>])
    IN FlattenSeq([i \in DOMAIN used |-> <<<<"table", used[i]>>>> \o Rows(used[i])]) \o links

get_vivado_build_targets(data) == [i \in DOMAIN data |-> <<"target", data[i].label>>]

get_ignore_paths(data) ==
    FlattenSeq([i \in DOMAIN data |->
        <<<<"Vivado", data[i].label>>>>
        \o IF data[i].yocto THEN <<<<"Yocto", data[i].label>>>> ELSE <<>>])

Generated(f, data) ==
    CASE f = "README.md" -> create_tables(data)
      [] f = "build.tcl" -> get_vivado_build_targets(data)
      [] f = ".gitignore" -> get_ignore_paths(data)

Start == <<"updater start">>
End == <<"updater end">>

\* The script tells a marker from a generated line by its text alone: nothing in
\* data.json reads like one.
UpdateAssumption ==
    /\ \A d \in DataVersions, f \in UpdFiles :
          LET gen == Generated(f, d) IN gen \in Seq(Range(gen) \ {Start, End})
    /\ \A t \in Templates : t \in Seq(Range(t))
ASSUME UpdateAssumption

-----------------------------------------------------------------------------
NoUpdate == [at |-> "idle", data |-> <<>>, file |-> 1, files |-> <<>>, lines |-> <<>>,
             inside |-> FALSE, original |-> <<>>, torn |-> {}, runs |-> 0]

BeforeUpdates(d, t) ==
    [NoUpdate EXCEPT !.at = "rest", !.data = d, !.files = t, !.original = t]

StartUpdates == {BeforeUpdates(d, t) : d \in DataVersions, t \in [UpdFiles -> Templates]}

File == Files[upd.file]

Opened(u, n) ==
    [u EXCEPT !.at = "write", !.file = n, !.lines = u.files[Files[n]],
              !.files[Files[n]] = <<>>, !.inside = FALSE]

\* The script is started, or started again.
UpdateStarts ==
    /\ upd.at \in {"rest", "done"} /\ upd.runs < MaxUpdates
    /\ upd' = Opened([upd EXCEPT !.runs = @ + 1], 1)

\* Fault seed: the end marker does not end the block.
Rewrites_Open(gen) ==
    LET line == Head(upd.lines)
        out == IF line = Start THEN <<line>> \o gen
               ELSE IF line = End \/ ~upd.inside THEN <<line>> ELSE <<>>
    IN upd' = [upd EXCEPT !.lines = Tail(@), !.files[File] = @ \o out,
                          !.inside = @ \/ line = Start]

\* One turn of the loop over the lines.
Rewrites(gen) ==
    LET line == Head(upd.lines)
        out == IF line = Start THEN <<line>> \o gen
               ELSE IF line = End \/ ~upd.inside THEN <<line>> ELSE <<>>
    IN upd' = [upd EXCEPT !.lines = Tail(@), !.files[File] = @ \o out,
                          !.inside = line = Start \/ (@ /\ line # End)]

update_readme ==
    /\ upd.at = "write" /\ upd.lines # <<>> /\ File = "README.md"
    /\ Rewrites(create_tables(upd.data))

update_file ==
    /\ upd.at = "write" /\ upd.lines # <<>> /\ File # "README.md"
    /\ Rewrites(Generated(File, upd.data))

\* main: the files one after the other. (check_sources at the end only prints.)
NextFile ==
    /\ upd.at = "write" /\ upd.lines = <<>>
    /\ upd' = IF upd.file < Len(Files) THEN Opened(upd, upd.file + 1)
              ELSE [upd EXCEPT !.at = "done"]

\* The script is stopped: what it had not yet written of the file is lost.
UpdateStops ==
    /\ upd.at = "write"
    /\ upd' = [upd EXCEPT !.at = "rest", !.lines = <<>>,
                          !.torn = IF upd.lines = <<>> THEN @ ELSE @ \cup {File}]

\* data.json is edited between two runs. (It is read once, at the start: an edit
\* during a run is for the files one after it.)
DataEdited ==
    /\ upd.at = "done" /\ upd.runs < MaxUpdates
    /\ \E d \in DataVersions \ {upd.data} : upd' = [upd EXCEPT !.at = "rest", !.data = d]

UpdateNext ==
    UpdateStarts \/ update_readme \/ update_file \/ NextFile \/ UpdateStops \/ DataEdited

-----------------------------------------------------------------------------
InBlock(t, i) == \E j \in 1 .. i - 1 : t[j] = Start /\ \A k \in j .. i : t[k] # End

\* File t with every block replaced: what lies between a start marker and the
\* next end marker is generated, the rest is t's own.
Rendered(t, gen) ==
    FlattenSeq([i \in DOMAIN t |->
        IF t[i] = Start THEN <<Start>> \o gen
        ELSE IF InBlock(t, i) THEN <<>> ELSE <<t[i]>>])

\* However often the script ran, was stopped between the files and ran again
\* with other data: after a run that ended all three files say the same of the
\* same data and have kept every line of their own, but for a file that a stop
\* hit while it was being written.
FilesAgree ==
    upd.at = "done" =>
        \A f \in UpdFiles \ upd.torn :
            upd.files[f] = Rendered(upd.original[f], Generated(f, upd.data))
=============================================================================
