---------------------------- MODULE ImagingCv300 ----------------------------
(***************************************************************************)
(* The settings of the stages of hi3516cv300.                              *)
(***************************************************************************)
EXTENDS Settings

(* HimppVideoISP::Imaging                                                  *)
AntiFlicker ==
    Of("AntiFlicker", {"Mode"}, Live("exposure", "mode"))
    @@ Of("AntiFlicker", {"Frequency"}, Live("exposure", "byte"))

ExposureModes == Of("Exposure", {"Mode", "Priority"}, Live("exposure", "first"))

ExposureRanges ==
    Of("Exposure", {"MinExposureTime", "MaxExposureTime", "MinGain", "MaxGain"},
       Live("exposure", "word"))

ExposureManual ==
    Of("Exposure", {"ExposureTime", "Gain"}, Live("exposure", "word"))
    @@ Of("Exposure", {"Compensation"}, Live("exposure", "byte"))

Iris == Of("Exposure", {"MinIris", "MaxIris", "Iris"}, Stored)

WhiteBalance ==
    Of("WhiteBalance", {"Mode"}, Live("wb", "first"))
    @@ Of("WhiteBalance", {"CbGain", "CrGain"}, Live("wb", "byte"))
    @@ Of("WhiteBalance", {"RGain", "GGain", "BGain"}, Live("wb", "half"))

WideDynamicRange ==
    Of("WideDynamicRange", {"Mode"}, Live("drc", "on"))
    @@ Of("WideDynamicRange", {"Level"}, Live("drc", "byte"))

Gamma == Of("Gamma", {"CurveData"}, Live("gamma", "curve"))

\* The part of doEnableElement() that writes the exposure attribute.
ExposureStart ==
    ({"AntiFlicker"} \X {"Mode", "Frequency"})
    \cup ({"Exposure"} \X {"Mode", "Priority", "MinExposureTime", "MaxExposureTime",
                           "MinGain", "MaxGain", "Compensation", "ExposureTime", "Gain"})

\* The white balance and the dynamic range.
ColourStart ==
    ({"WhiteBalance"} \X {"Mode", "CbGain", "CrGain", "RGain", "GGain", "BGain"})
    \cup ({"WideDynamicRange"} \X {"Mode", "Level"})

\* The gamma curve.
GammaStart == {"Gamma"} \X {"CurveData"}

ISP ==
    LET settings == AntiFlicker @@ ExposureModes @@ ExposureRanges @@ ExposureManual
                    @@ Iris @@ WhiteBalance @@ WideDynamicRange @@ Gamma
    IN  Starts(Starts(settings, ExposureStart \cup ColourStart, "always"),
               GammaStart, "read back")

-----------------------------------------------------------------------------
\* HimppViDev::Imaging: the saturation, which the IR-cut filter takes part in,
\* has a module of its own.
CSC == Of("Imaging", {"Brightness", "Contrast", "Chroma"}, Live("csc", "word"))

ViDevStart == {"Imaging"} \X {"Brightness", "Contrast", "Chroma"}

ViDev == Starts(CSC, ViDevStart, "always")

\* HimppViChan::Imaging
ViChanLDC ==
    Of("LDC", {"Mode"}, Live("ldc", "on")) @@ Of("LDC", {"Ratio"}, Live("ldc", "word"))

MirrorFlip == Of("Imaging", {"Mirror", "Flip"}, Live("channel", "bool"))

ChannelStart == {"Imaging"} \X {"Mirror", "Flip"}

LDCStart == {"LDC"} \X {"Mode", "Ratio"}

ViChan == Starts(Starts(ViChanLDC @@ MirrorFlip, ChannelStart, "needed"), LDCStart, "offline")

\* HimppIrCut: the brightness is written to a device.
IrCutSettings ==
    Of("IrCutFilter", {"Threshold", "Hysteresis"}, Stored)
    @@ Of("IrCutFilter", {"Brightness"}, Live("irledbr", "word"))

IrCutStart == {<<"IrCutFilter", "Brightness">>}

IrCut == Starts(IrCutSettings, IrCutStart, "always")

\* From the top: channel and group of the VPSS first.
Pipe == <<Forwarder, Forwarder, IrCut, ViChan, ViDev, ISP>>
=============================================================================
