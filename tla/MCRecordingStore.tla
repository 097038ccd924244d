-------------------------- MODULE MCRecordingStore --------------------------
(* Small instances of RecordingStore for TLC. *)
EXTENDS RecordingStore

Setting(on, only, days, load) ==
    [on |-> on, only |-> only, remoteDays |-> days, remoteCap |-> days, load |-> load]

\* No remote store, one as an archive, one exclusive, both, both exclusive.
EverySetting ==
    { Setting({}, {}, FALSE, 2),
      Setting({"webdav"}, {}, TRUE, 1),
      Setting({"minio"}, {"minio"}, TRUE, 1),
      Setting(Remote, {"minio"}, FALSE, 1),
      Setting(Remote, Remote, FALSE, 1) }

ArchiveSetting == { Setting({"webdav"}, {}, FALSE, 2) }
=============================================================================
