------------------------------ MODULE AmVinfo ------------------------------
(***************************************************************************)
(* The modes a driver may name, with the size and the rate AmVinfo.cpp keeps *)
(* of them: what fbdev lists of a mode.  The rows without a name of their own *)
(* in the table of names (vga, the frame packed ones) are left out.  Rates    *)
(* are in thousandths of a hertz.                                             *)
(***************************************************************************)
EXTENDS Integers, TLC

Frames(w, h, hz) == [w |-> w, h |-> h, inter |-> FALSE, rate |-> hz * 1000]
Fields(w, h, hz) == [w |-> w, h |-> h, inter |-> TRUE, rate |-> hz * 1000]
AllOf(names, info) == [n \in names |-> info]

sdInfo ==
    AllOf({"480i60hz", "480i60hz_4x3", "480irpt", "480cvbs"}, Fields(720, 480, 60))
    @@ AllOf({"480p60hz", "480p60hz_4x3", "480prtp"}, Frames(720, 480, 60))
    @@ AllOf({"576i50hz", "576i50hz_4x3", "576irpt", "576cvbs"}, Fields(720, 576, 50))
    @@ AllOf({"576p50hz", "576p50hz_4x3", "576prpt"}, Frames(720, 576, 50))

hdInfo ==
    "1280x720p120hz" :> Frames(1280, 720, 120) @@ "1280x720p100hz" :> Frames(1280, 720, 100)
    @@ "720p60hz" :> Frames(1280, 720, 60) @@ "720p50hz" :> Frames(1280, 720, 50)
    @@ "768p60hz" :> Frames(1366, 768, 60) @@ "768p50hz" :> Frames(1366, 768, 50)
    @@ "1080i60hz" :> Fields(1920, 1080, 60) @@ "1080i50hz" :> Fields(1920, 1080, 50)
    @@ "1920x1080p120hz" :> Frames(1920, 1080, 120)
    @@ "1920x1080p100hz" :> Frames(1920, 1080, 100)
    @@ "1080p60hz" :> Frames(1920, 1080, 60) @@ "1080p50hz" :> Frames(1920, 1080, 50)
    @@ "1080p30hz" :> Frames(1920, 1080, 30) @@ "1080p25hz" :> Frames(1920, 1080, 25)
    @@ "1080p24hz" :> Frames(1920, 1080, 24)

uhdInfo ==
    "2160p24hz" :> Frames(3840, 2160, 24) @@ "2160p25hz" :> Frames(3840, 2160, 25)
    @@ "2160p30hz" :> Frames(3840, 2160, 30) @@ "2160p48hz" :> Frames(3840, 2160, 48)
    @@ AllOf({"2160p60hz", "2160p60hz420"}, Frames(3840, 2160, 60))
    @@ "4k2k5g" :> Frames(3840, 2160, 50)
    @@ "3840x2160p100hz" :> Frames(3840, 2160, 100)
    @@ "3840x2160p120hz" :> Frames(3840, 2160, 120)
    @@ "3840x2160p144hz" :> Frames(3840, 2160, 144)
    @@ "smpte24hz" :> Frames(4096, 2160, 24) @@ "smpte25hz" :> Frames(4096, 2160, 25)
    @@ "smpte30hz" :> Frames(4096, 2160, 30) @@ "smpte50hz" :> Frames(4096, 2160, 50)
    @@ AllOf({"smpte60hz", "smpte60hz420"}, Frames(4096, 2160, 60))
    @@ "smpte100hz" :> Frames(4096, 2160, 100) @@ "smpte120hz" :> Frames(4096, 2160, 120)

(* Half and quarter height, 50 Hz at 4k, and 8k; of the modes of 200 Hz it is *)
(* the 420 one that has the greater height, of those of 240 Hz the other.     *)
wideInfo ==
    AllOf({"3840x1080p120hz", "4k1k120hz420"}, Frames(3840, 1080, 120))
    @@ AllOf({"4k1k100hz", "4k1k100hz420"}, Frames(3840, 1080, 100))
    @@ "4k05k200hz420" :> Frames(3840, 1080, 200) @@ "4k05k200hz" :> Frames(3840, 540, 200)
    @@ "4k05k240hz420" :> Frames(3840, 540, 240) @@ "4k05k240hz" :> Frames(3840, 1080, 240)
    @@ AllOf({"2160p50hz", "2160p50hz420"}, Frames(3840, 2160, 50))
    @@ "smpte50hz420" :> Frames(4096, 2160, 50)
    @@ "7680x4320p24hz" :> Frames(7680, 4320, 24) @@ "7680x4320p25hz" :> Frames(7680, 4320, 25)
    @@ "7680x4320p30hz" :> Frames(7680, 4320, 30) @@ "7680x4320p48hz" :> Frames(7680, 4320, 48)
    @@ "7680x4320p50hz" :> Frames(7680, 4320, 50) @@ "7680x4320p60hz" :> Frames(7680, 4320, 60)

palInfo ==
    "pal_m" :> Fields(720, 480, 60) @@ "pal_n" :> Fields(720, 576, 50)
    @@ "ntsc_m" :> Fields(720, 480, 60)

tv_info ==
    sdInfo @@ hdInfo @@ uhdInfo @@ wideInfo @@ palInfo @@ "dummy_l" :> Frames(720, 480, 50)
=============================================================================
