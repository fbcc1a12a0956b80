------------------------------- MODULE MCCore -------------------------------
(* The writes of the OPL3 core, one group of registers at a time.            *)
EXTENDS CoreWrites

VARIABLE group

At(address, value) == [address |-> address, value |-> value]

\* The flags and connections of a chain; the keys of its channels; the mode, with
\* the channel and its panning, the connection or the waveform that depends on it;
\* the drums.  The slots are those the writes are of, and one of another bank.
Groups ==
    { [writes |-> {At(260, 1), At(192, 3), At(195, 1)}, slots |-> {0, 3, 6, 9}],
      [writes |-> {At(260, 1), At(260, 0), At(176, 33)}, slots |-> {0, 3, 6, 9, 27}],
      [writes |-> {At(261, 1), At(457, 49)}, slots |-> {13, 31}],
      [writes |-> {At(261, 1), At(204, 3)}, slots |-> {0, 3, 6, 9}],
      [writes |-> {At(261, 1), At(241, 7)}, slots |-> {13, 31}],
      [writes |-> {At(189, 48), At(189, 0)}, slots |-> {12, 13, 15, 31}] }

AllWrites == UNION {g.writes : g \in Groups}
AllWatches == {g.slots : g \in Groups}

\* A player first writes the OPL3's own mode, but where the mode is among the writes.
GroupInit ==
    /\ group \in Groups
    /\ CoreStarts(IF At(261, 1) \in group.writes THEN 0 ELSE 1, group.slots)
\* No slots and no writes.
NoGroup == group = [writes |-> {}, slots |-> {}] /\ CoreStarts(1, {})
GroupStep == (\E w \in group.writes : Write(w) \/ WriteWhenFull(w)) \/ Generate
GroupNext == GroupStep /\ UNCHANGED group
GroupSpec == GroupInit /\ [][GroupNext]_<<coreVars, group>>
=============================================================================
