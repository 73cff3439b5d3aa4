----------------------------- MODULE EnvTopology -----------------------------
(***************************************************************************)
(* playbooks/pnfs/scripts/update_env_topology.py: how the managed topology *)
(* block of pnfs-lab.env is replaced.  A line of the file is a record: a   *)
(* line of the user, the anchor comment, or a line of a managed block with *)
(* the configuration it describes.                                         *)
(***************************************************************************)
EXTENDS Naturals, Sequences, SequencesExt

NoConfig == <<0, 0, 0>>

UserLine(n) == [kind |-> "user", of |-> <<n, 0, 0>>]
Anchor == [kind |-> "anchor", of |-> NoConfig]

\* block_lines: the markers, and the variables between them.  The hosts of the
\* variables are those of the configuration.
NewBlock(k) ==
  <<[kind |-> "begin", of |-> k], [kind |-> "variables", of |-> k], [kind |-> "end", of |-> k]>>

\* One line of the cleaning loop: everything between two markers, the markers
\* and single managed variables are dropped.
KeepLine(acc, line) ==
  CASE line.kind = "begin" -> [acc EXCEPT !.skip = "yes"]
    [] line.kind = "end" -> [acc EXCEPT !.skip = "no"]
    [] OTHER -> IF acc.skip = "yes" \/ line.kind = "variables" THEN acc
                ELSE [acc EXCEPT !.lines = Append(@, line)]

CleanedLines(file) == FoldLeft(KeepLine, [skip |-> "no", lines |-> <<>>], file).lines

\* The new block goes under the first anchor, or to the end of the file.
Updated(file, k) ==
  LET lines == CleanedLines(file)
      anchors == {i \in 1..Len(lines) : lines[i] = Anchor}
      at == IF anchors = {} THEN Len(lines)
            ELSE CHOOSE i \in anchors : \A j \in anchors : i <= j
  IN SubSeq(lines, 1, at) \o NewBlock(k) \o SubSeq(lines, at + 1, Len(lines))

\* write(): the text replaces the beginning of what the file holds by then.
Overwritten(file, text) ==
  text \o SubSeq(file, Len(text) + 1, Len(file))

UserLines(file) == SelectSeq(file, LAMBDA line : line.kind \in {"user", "anchor"})
=============================================================================
