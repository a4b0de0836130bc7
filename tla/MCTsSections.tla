---------------------------- MODULE MCTsSections ----------------------------
(* Two versions of a table in two sections, a section that does not apply yet, a short one. *)
EXTENDS TsSections

CONSTANTS old1, old2, new1, next2, short

Long(version, number, current, length) ==
  [table_id |-> 1, long |-> TRUE, subtable_extension |-> 1, version_number |-> version,
   section_number |-> number, last_section_number |-> 1, current |-> current, length |-> length]

MCFields ==
  [s \in Sections |-> CASE s = old1 -> Long(0, 0, TRUE, 2) [] s = old2 -> Long(0, 1, TRUE, 6)
     [] s = new1 -> Long(1, 0, TRUE, 3) [] s = next2 -> Long(1, 1, FALSE, 2)
     [] s = short -> [table_id |-> 2, long |-> FALSE, subtable_extension |-> 0, version_number |-> 0,
                      section_number |-> 0, last_section_number |-> 0, current |-> TRUE, length |-> 2]]
=============================================================================
