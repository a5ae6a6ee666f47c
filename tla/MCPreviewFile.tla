--------------------------- MODULE MCPreviewFile ---------------------------
\* Instances of PreviewFile: one publisher of each kind of output, or Emby's alone.
EXTENDS PreviewFile

CONSTANTS w1, w2

Three == <<"plex", "emby", "jellyfin">>
OneEmby == <<"emby">>
=============================================================================
